---- MODULE Spec2Model ----
(***************************************************************************)
(* A state-machine model of the cuteCore kernel: the recycling id          *)
(* allocators, the pipe ring buffer, and the process / thread life cycle   *)
(* (run queue, processor, clone, exit, wait4, pipes).                      *)
(*                                                                         *)
(* The kernel runs on one core and masks interrupts in every critical      *)
(* section, so a kernel path between two scheduling points is one action.  *)
(* Addresses are written as their two's-complement signed value            *)
(* (usize::MAX - PAGE_SIZE + 1 reads -PAGE_SIZE).                          *)
(***************************************************************************)
EXTENDS Integers, Sequences, FiniteSets, TLC

VARIABLES
    ring,              \* PipeRingBuffer of the pipe: arr, head, tail, status
    wstamp,            \* next byte of the data stream user buffers are filled from
    rlog,              \* result of the last Pipe call made on the ring (ring-only runs)
    allocators,        \* allocator-only runs: a pid, a tid and a kernel-stack allocator
    handles,           \* allocator-only runs: ids held by live PidHandle /
                       \* TaskUserRes / KernelStack values
    machine,           \* "running", "shutdown" (shutdown() was called) or "panic"
    PID_ALLOCATOR,     \* RecycleAllocator of pids
    KSTACK_ALLOCATOR,  \* RecycleAllocator of kernel-stack ids
    pcb,               \* process slot -> ProcessControlBlock (pid handle and inner)
    tcb,               \* process slot -> the main TaskControlBlock of that process
    ready_queue,       \* the run queue of the task manager, front first
    current,           \* PROCESSOR.current: <<>> or <<slot>>
    cpu,               \* what the core executes: "idle" (run_tasks), "user", or the
                       \* kernel continuation the current thread resumes at
    pid2process,       \* slots registered in the pid -> process map
    TIMERS,            \* the sleep heap: timers in the order they were added
    pipe,              \* the pipe made by sys_pipe2: who made it, bytes moved so far
    ev,                \* the last event: operation, thread, arguments, result
    uspace,            \* address-space runs: process slot -> state, MemorySet, trap context
    frames,            \* address-space runs: allocated frame -> page
    mev,               \* address-space runs: the last call and its result
    clock,             \* sleep runs: the time counter (get_time()), in clock ticks
    sleeper,           \* sleep runs: the thread that calls sys_nanosleep
    slices,            \* time-slice runs: thread -> dispatches counted so far
    cells,             \* handle runs: cell handles held, IntrMaskingInfo, sstatus.sie
    cell_sched,        \* handle runs: who executes, the run queue, the sleepers
    steps,             \* handle runs: agent -> the steps it has still to make
    cell_ev,           \* handle runs: the last step made
    timer_heap,        \* heap runs: the TimerCondVars of TIMERS, oldest first
    heap_now,          \* heap runs: get_time_ms()
    heap_ev            \* heap runs: the last call on the heap and what it did

ringVars  == <<ring, wstamp, rlog>>
allocVars == <<allocators, handles>>
procVars  == <<PID_ALLOCATOR, KSTACK_ALLOCATOR, pcb, tcb, ready_queue, current, cpu,
               pid2process, TIMERS, pipe, ev>>
kernVars  == <<machine, procVars>>
memVars   == <<uspace, frames, mev>>
sleepVars == <<clock, sleeper>>
tickVars  == <<slices>>
cellVars  == <<cells, cell_sched, steps, cell_ev>>
heapVars  == <<timer_heap, heap_now, heap_ev>>
vars == <<ringVars, allocVars, kernVars, memVars, sleepVars, tickVars, cellVars, heapVars>>

(***************************************************************************)
(* Bounds of the model.                                                    *)
(***************************************************************************)
\* longest user buffer handed to one pipe call in the ring-only runs
MaxLen == 3
\* most handles of one kind alive at once in the allocator-only runs
MaxHandles == 3

(***************************************************************************)
(* Small helpers.                                                          *)
(***************************************************************************)
Min(a, b) == IF a < b THEN a ELSE b

Range(s) == {s[i] : i \in 1..Len(s)}

\* the sequence s without its i-th element (Vec::remove)
RemoveAt(s, i) == SubSeq(s, 1, i - 1) \o SubSeq(s, i + 1, Len(s))

\* s has no two equal elements
NoDup(s) == \A i, j \in 1..Len(s) : i # j => s[i] # s[j]

(***************************************************************************)
(* RecycleAllocator (task/pid.rs, used for pids and tids).                 *)
(***************************************************************************)
RecycleAllocator_new == [current |-> 0, recycled |-> <<>>]

\* faulty variant: hands out the last recycled id without taking it off the free list
RecycleAllocator_alloc_nopop(a) ==
    IF Len(a.recycled) > 0
    THEN [id |-> a.recycled[Len(a.recycled)], alloc |-> a]
    ELSE [id |-> a.current, alloc |-> [a EXCEPT !.current = a.current + 1]]

\* alloc: pop the free list, else take the counter and advance it
RecycleAllocator_alloc(a) ==
    IF Len(a.recycled) > 0
    THEN [id |-> a.recycled[Len(a.recycled)],
          alloc |-> [a EXCEPT !.recycled = SubSeq(a.recycled, 1, Len(a.recycled) - 1)]]
    ELSE [id |-> a.current, alloc |-> [a EXCEPT !.current = a.current + 1]]

\* the two assertions of dealloc hold
RecycleAllocator_dealloc_ok(a, id) ==
    id < a.current /\ id \notin Range(a.recycled)

RecycleAllocator_dealloc(a, id) ==
    [a EXCEPT !.recycled = Append(a.recycled, id)]

(***************************************************************************)
(* RecycleAllocator of kernel-stack ids (hal/arch/riscv/kernel_stack.rs).  *)
(***************************************************************************)
KStackAllocator_alloc(a) ==
    IF Len(a.recycled) > 0
    THEN [id |-> a.recycled[Len(a.recycled)],
          alloc |-> [a EXCEPT !.recycled = SubSeq(a.recycled, 1, Len(a.recycled) - 1)]]
    ELSE [id |-> a.current, alloc |-> [a EXCEPT !.current = a.current + 1]]

KStackAllocator_dealloc_ok(a, id) ==
    id < a.current /\ id \notin Range(a.recycled)

KStackAllocator_dealloc(a, id) ==
    [a EXCEPT !.recycled = Append(a.recycled, id)]

(***************************************************************************)
(* Pipe ring buffer (fs/pipe.rs).                                          *)
(***************************************************************************)
RING_BUFFER_SIZE == 32

\* the values a byte of user data takes in the model
ByteValues == {1, 2, 3}

NextStamp(b) == IF b = 3 THEN 1 ELSE b + 1

\* the n bytes of the data stream that start with byte b
RECURSIVE StreamFrom(_, _)
StreamFrom(b, n) == IF n = 0 THEN <<>> ELSE <<b>> \o StreamFrom(NextStamp(b), n - 1)

RECURSIVE StampAfter(_, _)
StampAfter(b, n) == IF n = 0 THEN b ELSE StampAfter(NextStamp(b), n - 1)

PipeRingBuffer_new ==
    [arr |-> [i \in 0..(RING_BUFFER_SIZE - 1) |-> 0],
     head |-> 0, tail |-> 0, status |-> "Empty"]

\* faulty variant: the wrap-around test is left out, the ring never becomes Full
write_byte_nofull(r, byte) ==
    [r EXCEPT !.arr[r.tail] = byte,
              !.tail = (r.tail + 1) % RING_BUFFER_SIZE,
              !.status = "Normal"]

write_byte(r, byte) ==
    LET t == (r.tail + 1) % RING_BUFFER_SIZE IN
    [r EXCEPT !.arr[r.tail] = byte,
              !.tail = t,
              !.status = IF t = r.head THEN "Full" ELSE "Normal"]

\* faulty variant: the status is left as it was, the ring never becomes Empty
read_byte_keep_status(r) == [r EXCEPT !.head = (r.head + 1) % RING_BUFFER_SIZE]

\* read_byte: the ring after the read; the byte read is r.arr[r.head]
read_byte(r) ==
    LET h == (r.head + 1) % RING_BUFFER_SIZE IN
    [r EXCEPT !.head = h,
              !.status = IF h = r.tail THEN "Empty" ELSE "Normal"]

available_read(r) ==
    IF r.status = "Empty" THEN 0
    ELSE IF r.tail > r.head THEN r.tail - r.head
    ELSE r.tail + RING_BUFFER_SIZE - r.head

available_write(r) ==
    IF r.status = "Full" THEN 0
    ELSE RING_BUFFER_SIZE - available_read(r)

\* faulty variant: the loop stops after the first byte
WriteBytes_first(r, data) == IF Len(data) = 0 THEN r ELSE write_byte(r, Head(data))

\* the for-loop of Pipe::write / write_at: write_byte for each byte of data
RECURSIVE WriteBytes(_, _)
WriteBytes(r, data) ==
    IF Len(data) = 0 THEN r
    ELSE WriteBytes(write_byte(r, Head(data)), Tail(data))

\* the for-loop of Pipe::read / read_at: n calls of read_byte;
\* the ring afterwards and the bytes delivered, in order
RECURSIVE ReadBytes(_, _)
ReadBytes(r, n) ==
    IF n = 0 THEN [ring |-> r, bytes |-> <<>>]
    ELSE LET rest == ReadBytes(read_byte(r), n - 1) IN
         [ring |-> rest.ring, bytes |-> <<r.arr[r.head]>> \o rest.bytes]

(***************************************************************************)
(* Pipe::read and Pipe::write up to their return or their next yield.      *)
(* outcome "return": the call returns ret; outcome "suspend": the call     *)
(* dropped the ring and calls suspend_current_and_run_next, to retry with  *)
(* `already` bytes done.                                                   *)
(***************************************************************************)
RECURSIVE Pipe_read(_, _, _, _, _)
Pipe_read(r, want, already, nonblocking, closed) ==
    LET loop_read == available_read(r) IN
    IF loop_read = 0
    THEN IF nonblocking \/ closed
         THEN [ring |-> r, outcome |-> "return", ret |-> already, bytes |-> <<>>]
         ELSE [ring |-> r, outcome |-> "suspend", ret |-> already, bytes |-> <<>>]
    ELSE LET n == Min(loop_read, want - already)
             got == ReadBytes(r, n)
         IN  IF n = want - already
             THEN [ring |-> got.ring, outcome |-> "return",
                   ret |-> already + n, bytes |-> got.bytes]
             ELSE LET rest == Pipe_read(got.ring, want, already + n, nonblocking, closed)
                  IN  [rest EXCEPT !.bytes = got.bytes \o rest.bytes]

RECURSIVE Pipe_write(_, _, _, _)
Pipe_write(r, data, already, nonblocking) ==
    LET loop_write == available_write(r)
        want == Len(data)
    IN
    IF loop_write = 0
    THEN IF nonblocking
         THEN [ring |-> r, outcome |-> "return", ret |-> already]
         ELSE [ring |-> r, outcome |-> "suspend", ret |-> already]
    ELSE LET n == Min(loop_write, want - already)
             r1 == WriteBytes(r, SubSeq(data, already + 1, already + n))
         IN  IF n = want - already
             THEN [ring |-> r1, outcome |-> "return", ret |-> already + n]
             ELSE Pipe_write(r1, data, already + n, nonblocking)

\* read_at / write_at: one attempt bounded by what is available, offset ignored
Pipe_read_at(r, len) ==
    LET to_read == Min(available_read(r), len)
        got == ReadBytes(r, to_read)
    IN  [ring |-> got.ring, ret |-> to_read, bytes |-> got.bytes]

Pipe_write_at(r, data) ==
    LET to_write == Min(available_write(r), Len(data)) IN
    [ring |-> WriteBytes(r, SubSeq(data, 1, to_write)), ret |-> to_write]

(***************************************************************************)
(* Processes and threads.  A process slot stands for the heap cell of one  *)
(* Arc<ProcessControlBlock> and of its main-thread Arc<TaskControlBlock>   *)
(* (sys_clone asserts that a process has one thread).  Option values are   *)
(* <<>> (None) and <<v>> (Some(v)).                                        *)
(***************************************************************************)
\* process slots of the model
MaxProcs == 3

Procs == 0..(MaxProcs - 1)

\* no thread is dispatched once this many of its time slices were counted
MaxSlices == 8

\* the threads of the runs that count time slices
TickThreads == 2

\* the slot of the init process (the INITPROC static keeps it alive)
INITPROC == 0

IDLE_PID == 0

PAGE_SIZE == 4096

KERNEL_STACK_SIZE == PAGE_SIZE * 2

TRAMPOLINE == 0 - PAGE_SIZE

\* kernel_stack_position(id).1 = KernelStack::get_top
kernel_stack_top(kstack_id) == TRAMPOLINE - kstack_id * (KERNEL_STACK_SIZE + PAGE_SIZE)

\* the user register images a thread calls clone with: pc, a0 and one
\* register that stands for every other one
UserRegs == {[pc |-> 0, x |-> 0, a0 |-> 0], [pc |-> 4, x |-> 1, a0 |-> 0]}

\* the register image of every other trap
TrapRegs == {[pc |-> 8, x |-> 2, a0 |-> 0]}

\* exit codes passed to sys_exit (i32)
ExitCodes == {298, 0 - 1}

\* pid arguments of wait4: any child, or one pid
WaitPids == {0 - 1, 1}

WNOHANG == 1

\* requests of nanosleep: the time until the clock reaches the end of the
\* sleep; a sleep of no time still blocks until the next timer interrupt
SleepReqs == {0}

\* option words passed to wait4; 16 is no WaitOption bit
WaitOptionWords == {0, WNOHANG, 16}

\* the calls of wait4: pid, whether status is non-null, and the option word
WaitCalls ==
    [pid : WaitPids, status : {TRUE}, option : WaitOptionWords]
    \cup {[pid |-> 0 - 1, status |-> FALSE, option |-> WNOHANG]}

\* WaitOption::from_bits(option) is Some
WaitOption_from_bits_ok(option) == (option \div 16) \in {0, 1048576}

\* clone flag words: SIGCHLD
CloneFlagWords == {17}

\* the exceptions of user mode that post a signal
FaultCauses ==
    {"StoreFault", "StorePageFault", "LoadFault", "LoadPageFault",
     "InstructionFault", "InstructionPageFault", "IllegalInstruction"}

\* faulty variant: every exception posts SIGSEGV
fault_signal_segv(cause) == "SIGSEGV"

\* the signal the arm of trap_handler for the exception posts
fault_signal(cause) == IF cause = "IllegalInstruction" THEN "SIGILL" ELSE "SIGSEGV"

\* x & 0xff on an i32 / usize
Low8(x) == x % 256

\* SignalFlags::check_error: the errno of the first fatal signal pending
check_error(signals) ==
    IF "SIGILL" \in signals THEN <<0 - 4>>
    ELSE IF "SIGKILL" \in signals THEN <<0 - 9>>
    ELSE IF "SIGSEGV" \in signals THEN <<0 - 11>>
    ELSE <<>>

NoPcb ==
    [live |-> FALSE, pid |-> 0, is_zombie |-> FALSE, parent |-> <<>>,
     children |-> <<>>, exit_code |-> 0, fd_table |-> <<>>, signals |-> {},
     task_res_allocator |-> RecycleAllocator_new, tgid |-> 0, tasks |-> <<>>]

NoFrame == [call |-> "none"]

NoTcb ==
    [live |-> FALSE, kstack |-> 0, res |-> <<>>, task_status |-> "Ready",
     exit_code |-> <<>>, task_cx |-> "trap_return", frame |-> NoFrame,
     trap_cx |-> [a0 |-> 0, sepc |-> 0, kernel_sp |-> 0, x |-> 0],
     born |-> <<>>]

\* TrapContext::app_init_context: zeroed registers, sepc = entry
app_init_context(entry, kernel_sp) ==
    [a0 |-> 0, sepc |-> entry, kernel_sp |-> kernel_sp, x |-> 0]

\* the kernel state as one value, threaded through the kernel routines
K ==
    [pcb |-> pcb, tcb |-> tcb, ready_queue |-> ready_queue, current |-> current,
     cpu |-> cpu, pid2process |-> pid2process, PID_ALLOCATOR |-> PID_ALLOCATOR,
     KSTACK_ALLOCATOR |-> KSTACK_ALLOCATOR, machine |-> machine,
     TIMERS |-> TIMERS, ring |-> ring, wstamp |-> wstamp, pipe |-> pipe]

\* a failed unwrap or assertion
panic(k) == [k EXCEPT !.machine = "panic"]

\* manager::add_task: push to the back of the run queue
add_task(k, t) == [k EXCEPT !.ready_queue = Append(@, t)]

\* schedule: __switch to the idle context; the caller chose the save slot
schedule(k) == [k EXCEPT !.cpu = "idle"]

\* faulty variant: the thread goes to the front of the run queue
suspend_current_and_run_next_front(k, cont) ==
    IF k.current = <<>> THEN panic(k)
    ELSE [k EXCEPT !.current = <<>>,
                   !.tcb[k.current[1]].task_status = "Ready",
                   !.tcb[k.current[1]].task_cx = cont,
                   !.ready_queue = <<k.current[1]>> \o @,
                   !.cpu = "idle"]

\* suspend_current_and_run_next; cont is what __switch saves in task_cx
suspend_current_and_run_next(k, cont) ==
    IF k.current = <<>> THEN panic(k)
    ELSE LET t == k.current[1] IN
         schedule(add_task(
             [k EXCEPT !.current = <<>>,
                       !.tcb[t].task_status = "Ready",
                       !.tcb[t].task_cx = cont], t))

\* the number of strong references to the PCB in slot s
pcb_strong_count(k, s) ==
    Cardinality({<<q, i>> \in Procs \X (1..MaxProcs) :
                    /\ k.pcb[q].live
                    /\ i <= Len(k.pcb[q].children)
                    /\ k.pcb[q].children[i] = s})
    + (IF s \in k.pid2process THEN 1 ELSE 0)
    + (IF s = INITPROC THEN 1 ELSE 0)

\* faulty variant: the thread is not attached to its process
tasks_push_none(tasks, t) == tasks

\* tasks.push(Some(task)): the tasks list holds the slots of its TCBs
tasks_push(tasks, t) == Append(tasks, <<t>>)

\* while tasks.len() > 1 { tasks.pop() }
tasks_keep_main(tasks) == IF Len(tasks) > 1 THEN SubSeq(tasks, 1, 1) ELSE tasks

\* faulty variant: the children list is not cleared
exit_mark_zombie_keep(inner, exit_code) ==
    [inner EXCEPT !.is_zombie = TRUE, !.exit_code = exit_code,
                  !.fd_table = <<>>, !.tasks = tasks_keep_main(@)]

\* exit_current_and_run_next, main thread of a process other than init:
\* what it leaves in the exiting process's own inner
exit_mark_zombie(inner, exit_code) ==
    [inner EXCEPT !.is_zombie = TRUE, !.exit_code = exit_code,
                  !.children = <<>>, !.fd_table = <<>>,
                  !.tasks = tasks_keep_main(@)]

exit_current_and_run_next(k, exit_code) ==
    IF k.current = <<>> THEN panic(k)
    ELSE
    LET t == k.current[1] IN
    IF ~k.pcb[t].live \/ k.tcb[t].res = <<>> THEN panic(k)
    ELSE
    LET tid == k.tcb[t].res[1]
        talloc == k.pcb[t].task_res_allocator
    IN
    IF ~RecycleAllocator_dealloc_ok(talloc, tid) THEN panic(k)
    ELSE
    LET k1 == [k EXCEPT !.current = <<>>,
                        !.tcb[t].exit_code = <<exit_code>>,
                        !.tcb[t].res = <<>>,
                        !.pcb[t].task_res_allocator = RecycleAllocator_dealloc(talloc, tid)]
    IN
    IF tid # 0 THEN schedule(k1)
    ELSE IF k1.pcb[t].pid = IDLE_PID THEN [k1 EXCEPT !.machine = "shutdown"]
    ELSE
    LET moved == k1.pcb[t].children IN
    schedule(
        [k1 EXCEPT
            !.pid2process = {s \in @ : k1.pcb[s].pid # k1.pcb[t].pid},
            !.pcb = [q \in Procs |->
                IF q = t THEN exit_mark_zombie(k1.pcb[q], exit_code)
                ELSE IF q = INITPROC
                     THEN [k1.pcb[q] EXCEPT !.children = @ \o moved]
                ELSE IF q \in Range(moved)
                     THEN [k1.pcb[q] EXCEPT !.parent = <<INITPROC>>]
                ELSE k1.pcb[q]]])

\* the tail of trap_handler: check_signals_of_current, then trap_return
trap_handler_tail(k) ==
    IF k.machine # "running" THEN k
    ELSE IF k.current = <<>> THEN panic(k)
    ELSE LET t == k.current[1] IN
         IF ~k.pcb[t].live THEN panic(k)
         ELSE LET err == check_error(k.pcb[t].signals) IN
              IF err # <<>> THEN exit_current_and_run_next(k, err[1])
              ELSE IF k.tcb[t].res = <<>> THEN panic(k)
              ELSE [k EXCEPT !.cpu = "user"]

\* the syscall arm of trap_handler after the handler returned result
syscall_return(k, result) ==
    IF k.machine # "running" THEN k
    ELSE IF k.current = <<>> THEN panic(k)
    ELSE trap_handler_tail([k EXCEPT !.tcb[k.current[1]].trap_cx.a0 = result])

\* __alltraps and the head of the syscall arm: the user registers are saved
\* in the trap context and sepc is moved past the ecall
trap_enter_syscall(k, t, regs, a0) ==
    [k EXCEPT !.tcb[t].trap_cx =
                  [@ EXCEPT !.a0 = a0, !.sepc = regs.pc + 4, !.x = regs.x],
              !.tcb[t].born = <<>>]

\* Drop for a TCB whose last reference is gone: its KernelStack is dropped
RECURSIVE drop_dead_tcbs(_, _)
drop_dead_tcbs(k, todo) ==
    IF todo = {} \/ k.machine # "running" THEN k
    ELSE LET s == CHOOSE x \in todo : \A y \in todo : x <= y
             referenced == \/ k.pcb[s].live
                           \/ s \in Range(k.ready_queue)
                           \/ k.current = <<s>>
                           \/ \E i \in 1..Len(k.TIMERS) : k.TIMERS[i].task = s
         IN  IF ~k.tcb[s].live \/ referenced
             THEN drop_dead_tcbs(k, todo \ {s})
             ELSE IF ~KStackAllocator_dealloc_ok(k.KSTACK_ALLOCATOR, k.tcb[s].kstack)
             THEN panic(k)
             ELSE drop_dead_tcbs(
                    [k EXCEPT !.tcb[s] = NoTcb,
                              !.KSTACK_ALLOCATOR =
                                  KStackAllocator_dealloc(@, k.tcb[s].kstack)],
                    todo \ {s})

\* Drop for ProcessControlBlock: the PidHandle returns the pid, tasks go
ProcessControlBlock_drop(k, s) ==
    IF ~RecycleAllocator_dealloc_ok(k.PID_ALLOCATOR, k.pcb[s].pid) THEN panic(k)
    ELSE [k EXCEPT !.pcb[s] = NoPcb,
                   !.PID_ALLOCATOR = RecycleAllocator_dealloc(@, k.pcb[s].pid)]

\* the next state is k, with the TCBs nothing refers to any more dropped
Commit(k) ==
    LET f == drop_dead_tcbs(k, Procs) IN
    /\ pcb' = f.pcb
    /\ tcb' = f.tcb
    /\ ready_queue' = f.ready_queue
    /\ current' = f.current
    /\ cpu' = f.cpu
    /\ pid2process' = f.pid2process
    /\ PID_ALLOCATOR' = f.PID_ALLOCATOR
    /\ KSTACK_ALLOCATOR' = f.KSTACK_ALLOCATOR
    /\ machine' = f.machine
    /\ TIMERS' = f.TIMERS
    /\ ring' = f.ring
    /\ wstamp' = f.wstamp
    /\ pipe' = f.pipe

\* the event of a step: the operation, the thread that made it, its
\* arguments, the value it returned (<<>> while it has not returned), and
\* what else the step passed to user space
Event(op, t, arg, ret, out) ==
    [op |-> op, t |-> t, arg |-> arg, ret |-> ret, out |-> out]

\* a step that no property looks at
NoEvent == Event("step", INITPROC, <<>>, <<>>, <<>>)

\* the thread that runs in user mode, if any
InUser(t) == machine = "running" /\ current = <<t>> /\ cpu = "user"

\* the current thread resumes in the kernel at continuation c
ResumesAt(t, c) == machine = "running" /\ current = <<t>> /\ cpu = c
(***************************************************************************)
(* The task manager, the sleep heap and the system calls on processes.     *)
(***************************************************************************)
\* faulty variant: the run queue is popped at the back
fetch_task_back(q) == [task |-> q[Len(q)], rest |-> SubSeq(q, 1, Len(q) - 1)]

\* manager::fetch_task on a non-empty run queue: pop the front
fetch_task(q) == [task |-> Head(q), rest |-> Tail(q)]

\* manager::wakeup_task: the task becomes Ready and is queued
wakeup_task(k, t) == add_task([k EXCEPT !.tcb[t].task_status = "Ready"], t)

RECURSIVE wakeup_all(_, _)
wakeup_all(k, tasks) ==
    IF tasks = <<>> THEN k ELSE wakeup_all(wakeup_task(k, Head(tasks)), Tail(tasks))

\* a timer is [task, ms]: ms is the time left until get_time_ms() reaches
\* expire_ms.  add_timer pushes one.
add_timer(k, ms, t) == [k EXCEPT !.TIMERS = Append(@, [task |-> t, ms |-> ms])]

\* the timers with expire_ms <= current_ms
DueTimers(timers) == {i \in 1..Len(timers) : timers[i].ms = 0}

\* the orders in which the heap may pop the due timers
PopOrders(timers) ==
    LET due == DueTimers(timers) IN
    {ord \in [1..Cardinality(due) -> due] :
        \A i, j \in 1..Cardinality(due) : i # j => ord[i] # ord[j]}

\* check_timer: every due timer is popped and its task woken
check_timer(k, ord) ==
    LET woken == [i \in 1..Len(ord) |-> k.TIMERS[ord[i]].task]
        keep(tm) == tm.ms # 0
    IN  wakeup_all([k EXCEPT !.TIMERS = SelectSeq(@, keep)], woken)

\* block_current_and_run_next; cont is what __switch saves in task_cx
block_current_and_run_next(k, cont) ==
    IF k.current = <<>> THEN panic(k)
    ELSE LET t == k.current[1] IN
         schedule([k EXCEPT !.current = <<>>,
                            !.tcb[t].task_status = "Blocked",
                            !.tcb[t].task_cx = cont])

\* current_add_signal
current_add_signal(k, signal) ==
    IF k.current = <<>> THEN panic(k)
    ELSE [k EXCEPT !.pcb[k.current[1]].signals = @ \cup {signal}]

\* __alltraps on an interrupt or exception: the registers are saved as they are
trap_enter(k, t, regs) ==
    [k EXCEPT !.tcb[t].trap_cx = [@ EXCEPT !.a0 = regs.a0, !.sepc = regs.pc, !.x = regs.x],
              !.tcb[t].born = <<>>]

\* trap_return of a new thread (goto_trap_return): the trap context is restored
trap_return(k) ==
    IF k.current = <<>> THEN panic(k)
    ELSE [k EXCEPT !.cpu = "user"]

\* faulty variant: the status is stored without the shift
sys_exit_code_noshift(exit_code) == Low8(exit_code)

\* sys_exit: (exit_code & 0xff) << 8
sys_exit_code(exit_code) == Low8(exit_code) * 256

\* (w >> 8) & 0xff of the u32 with the bits of the i32 w
StatusByte(w) == (w \div 256) % 256

\* slots that hold neither a PCB nor a TCB
FreeSlots(k) == {s \in Procs : ~k.pcb[s].live /\ ~k.tcb[s].live}

\* faulty variant: the child keeps the kernel_sp copied from its parent
clone_trap_cx_parent_sp(parent_cx, kstack_top) == [parent_cx EXCEPT !.a0 = 0]

\* what sys_clone leaves in the child's trap context: the parent's, copied
\* with its address space, with kernel_sp patched and a0 = 0
clone_trap_cx(parent_cx, kstack_top) ==
    [parent_cx EXCEPT !.kernel_sp = kstack_top, !.a0 = 0]

\* ProcessControlBlock::sys_clone and the rest of the system call:
\* the kernel state afterwards and the value returned
sys_clone(k, t, flags) ==
    LET child == CHOOSE s \in FreeSlots(k) : \A u \in FreeSlots(k) : s <= u
        pid_handle == RecycleAllocator_alloc(k.PID_ALLOCATOR)
        tid == RecycleAllocator_alloc(RecycleAllocator_new)
        kstack == KStackAllocator_alloc(k.KSTACK_ALLOCATOR)
        new_pcb == [live |-> TRUE, pid |-> pid_handle.id, is_zombie |-> FALSE,
                    parent |-> <<t>>, children |-> <<>>, exit_code |-> Low8(flags),
                    fd_table |-> k.pcb[t].fd_table, signals |-> {},
                    task_res_allocator |-> tid.alloc, tgid |-> pid_handle.id,
                    tasks |-> tasks_push(<<>>, child)]
        new_tcb == [live |-> TRUE, kstack |-> kstack.id, res |-> <<tid.id>>,
                    task_status |-> "Ready", exit_code |-> <<>>,
                    task_cx |-> "trap_return", frame |-> NoFrame,
                    trap_cx |-> clone_trap_cx(k.tcb[t].trap_cx,
                                              kernel_stack_top(kstack.id)),
                    born |-> <<>>]
    IN  IF k.tcb[t].res = <<>> THEN [k |-> panic(k), ret |-> 0, child |-> child]
        ELSE [k |-> add_task(
                       [k EXCEPT !.pcb[child] = new_pcb,
                                 !.pcb[t].children = Append(@, child),
                                 !.tcb[child] = new_tcb,
                                 !.PID_ALLOCATOR = pid_handle.alloc,
                                 !.KSTACK_ALLOCATOR = kstack.alloc,
                                 !.pid2process = @ \cup {child}], child),
              ret |-> pid_handle.id, child |-> child]

\* a test that lets every child match
wait4_matches_any(k, s, pid) == k.pcb[s].live

\* pid == -1 || pid as usize == p.getpid()
wait4_matches(k, s, pid) == pid = 0 - 1 \/ pid = k.pcb[s].pid

\* one pass of the loop of sys_wait4 up to its return or its suspension:
\* outcome "return" with the value returned and the word written to *status,
\* outcome "none" when a child matches but none is a zombie
RECURSIVE wait4_pass(_, _, _, _)
wait4_pass(k, t, pid, status) ==
    LET children == k.pcb[t].children
        matching == {i \in 1..Len(children) : wait4_matches(k, children[i], pid)}
        zombies == {i \in matching : k.pcb[children[i]].is_zombie}
    IN
    IF matching = {}
    THEN [k |-> k, outcome |-> "return", ret |-> 0 - 1, out |-> <<>>]
    ELSE IF zombies = {}
    THEN [k |-> k, outcome |-> "none", ret |-> 0, out |-> <<>>]
    ELSE
    LET idx == CHOOSE i \in zombies : \A j \in zombies : i <= j
        child == children[idx]
        k1 == [k EXCEPT !.pcb[t].children = RemoveAt(@, idx)]
    IN
    IF pcb_strong_count(k1, child) # 0
    THEN [k |-> panic(k1), outcome |-> "panic", ret |-> 0, out |-> <<>>]
    ELSE IF k1.pcb[child].pid = k1.pcb[child].tgid
    THEN [k |-> ProcessControlBlock_drop(k1, child), outcome |-> "return",
          ret |-> k1.pcb[child].pid,
          out |-> IF status THEN <<k1.pcb[child].exit_code>> ELSE <<>>]
    ELSE wait4_pass(ProcessControlBlock_drop(k1, child), t, pid, status)

\* option.contains(WaitOption::WNOHANG)
contains_WNOHANG(option) == option % 2 = 1

\* sys_wait4 from the head of its loop
sys_wait4(k, t, a) ==
    LET pass == wait4_pass(k, t, a.pid, a.status) IN
    IF pass.outcome = "panic" \/ pass.k.machine # "running"
    THEN [k |-> panic(pass.k), ret |-> <<>>, out |-> <<>>]
    ELSE IF pass.outcome = "return"
    THEN [k |-> syscall_return(pass.k, pass.ret), ret |-> <<pass.ret>>, out |-> pass.out]
    ELSE IF contains_WNOHANG(a.option)
    THEN [k |-> syscall_return(k, 0), ret |-> <<0>>, out |-> <<>>]
    ELSE [k |-> suspend_current_and_run_next(
                    [k EXCEPT !.tcb[t].frame =
                        [call |-> "wait4", pid |-> a.pid, status |-> a.status,
                         option |-> a.option]], "wait4"),
          ret |-> <<>>, out |-> <<>>]
(***************************************************************************)
(* File descriptors and the pipe.  An entry of fd_table is "none" or the   *)
(* file it refers to: "stdin", "stdout", or an end of the pipe, "pipe_r"   *)
(* and "pipe_w".  Descriptor fd is entry fd + 1 of the sequence.           *)
(***************************************************************************)
MaxWrites == 2

\* the processes of a run with the pipe: the one that makes it and its child
MaxPipeProcs == 2

\* the descriptors the calls on the pipe are made with
PipeFds == {3, 4}

\* the lengths of the buffers read into and written from: 16 bytes, the
\* five bytes of "hello", and one byte more than the ring holds
ReadLens == {16}

WriteLens == {5, RING_BUFFER_SIZE + 1}

PipeExitCodes == {0}

\* ProcessControlBlockInner::alloc_fd: the first free entry, or a new one
alloc_fd(fd_table) ==
    LET free == {i \in 1..Len(fd_table) : fd_table[i] = "none"} IN
    IF free # {}
    THEN [fd_table |-> fd_table,
          fd |-> (CHOOSE i \in free : \A j \in free : i <= j) - 1]
    ELSE [fd_table |-> Append(fd_table, "none"), fd |-> Len(fd_table)]

readable(file) == file \in {"stdin", "pipe_r"}

writable(file) == file \in {"stdout", "pipe_w"}

\* Arc::strong_count of the write end: the descriptors that refer to it and
\* the clones held by calls of sys_write that are switched out
write_end_strong_count(k) ==
    Cardinality(UNION {{<<s, i>> : i \in {j \in 1..Len(k.pcb[s].fd_table) :
                                              k.pcb[s].fd_table[j] = "pipe_w"}} :
                       s \in Procs})
    + Cardinality({t \in Procs : k.tcb[t].live /\ k.tcb[t].frame.call = "write"})

\* a test that never sees the end of file
all_write_ends_closed_never(k) == FALSE

\* PipeRingBuffer::all_write_ends_closed: the upgrade of the Weak fails
all_write_ends_closed(k) == write_end_strong_count(k) = 0

\* make_pipe: a new ring, a read end and a write end that share it
make_pipe(k) ==
    [k EXCEPT !.ring = PipeRingBuffer_new, !.pipe.made = TRUE]

\* sys_pipe2: make_pipe, then a descriptor for the read end and one for the
\* write end, both passed to user space
sys_pipe2(k, t) ==
    LET a1 == alloc_fd(k.pcb[t].fd_table)
        t1 == [a1.fd_table EXCEPT ![a1.fd + 1] = "pipe_r"]
        a2 == alloc_fd(t1)
        t2 == [a2.fd_table EXCEPT ![a2.fd + 1] = "pipe_w"]
    IN  [k |-> [make_pipe(k) EXCEPT !.pcb[t].fd_table = t2],
         ret |-> 0, out |-> <<a1.fd, a2.fd>>]

sys_close(k, t, fd) ==
    LET fd_table == k.pcb[t].fd_table IN
    IF fd >= Len(fd_table) THEN [k |-> k, ret |-> 0 - 1]
    ELSE IF fd_table[fd + 1] = "none" THEN [k |-> k, ret |-> 0 - 1]
    ELSE [k |-> [k EXCEPT !.pcb[t].fd_table[fd + 1] = "none"], ret |-> 0]

\* Pipe::read from its start or from the yield it was switched out at, to
\* its return (and the return of sys_read) or to its next yield
Pipe_read_pass(k, t, fd, len, already, bytes) ==
    LET res == Pipe_read(k.ring, len, already, FALSE, all_write_ends_closed(k))
        got == bytes \o res.bytes
        k1 == [k EXCEPT !.ring = res.ring, !.pipe.taken = @ + (res.ret - already),
                        !.pipe.delivered = @ \o res.bytes]
    IN  IF res.outcome = "return"
        THEN [k |-> syscall_return([k1 EXCEPT !.tcb[t].frame = NoFrame], res.ret),
              ret |-> <<res.ret>>, out |-> <<got>>]
        ELSE [k |-> suspend_current_and_run_next(
                        [k1 EXCEPT !.tcb[t].frame =
                            [call |-> "read", fd |-> fd, want |-> len,
                             already |-> res.ret, bytes |-> got]], "read"),
              ret |-> <<>>, out |-> <<got>>]

\* sys_read on a descriptor of PipeFds
sys_read(k, t, fd, len) ==
    LET fd_table == k.pcb[t].fd_table IN
    IF fd >= Len(fd_table)
    THEN [k |-> syscall_return(k, 0 - 1), ret |-> <<0 - 1>>, out |-> <<>>]
    ELSE IF fd_table[fd + 1] = "none" \/ ~readable(fd_table[fd + 1])
    THEN [k |-> syscall_return(k, 0 - 1), ret |-> <<0 - 1>>, out |-> <<>>]
    ELSE Pipe_read_pass(k, t, fd, len, 0, <<>>)

\* Pipe::write from its start or from its yield, to its return or next yield
Pipe_write_pass(k, t, fd, data, already) ==
    LET res == Pipe_write(k.ring, data, already, FALSE)
        k1 == [k EXCEPT !.ring = res.ring,
                        !.pipe.written = @ + (res.ret - already),
                        !.pipe.accepted = @ \o SubSeq(data, already + 1, res.ret),
                        !.pipe.wrote = @ \cup {t}]
    IN  IF res.outcome = "return"
        THEN [k |-> syscall_return([k1 EXCEPT !.tcb[t].frame = NoFrame], res.ret),
              ret |-> <<res.ret>>]
        ELSE [k |-> suspend_current_and_run_next(
                        [k1 EXCEPT !.tcb[t].frame =
                            [call |-> "write", fd |-> fd, data |-> data,
                             already |-> res.ret]], "write"),
              ret |-> <<>>]

\* sys_write on a descriptor of PipeFds
sys_write(k, t, fd, len) ==
    LET fd_table == k.pcb[t].fd_table IN
    IF fd >= Len(fd_table)
    THEN [k |-> syscall_return(k, 0 - 1), ret |-> <<0 - 1>>]
    ELSE IF fd_table[fd + 1] = "none" \/ ~writable(fd_table[fd + 1])
    THEN [k |-> syscall_return(k, 0 - 1), ret |-> <<0 - 1>>]
    ELSE Pipe_write_pass([k EXCEPT !.wstamp = StampAfter(@, len),
                                   !.pipe.writes = @ + 1],
                         t, fd, StreamFrom(k.wstamp, len), 0)

(***************************************************************************)
(* Address spaces (mm/address.rs, mm/memory_set.rs, hal/arch/riscv/sv39.rs) *)
(* A virtual address or page number of the high half is written as its     *)
(* signed value and compared as the unsigned word it is.  A page table is  *)
(* the function from the page numbers with a valid leaf entry to the entry; *)
(* a page is the function from the offsets of its non-zero bytes to them.  *)
(* A step of the memory code works on a context x: the MemorySet worked    *)
(* on, the frames in use, and ok (FALSE after a failed unwrap or assertion). *)
(***************************************************************************)
\* most frames allocated at once
MaxFrames == 12
\* no step is started with brk beyond this page number
MaxVpn == 6
\* process slots that have an address space
MaxMemProcs == 2
\* no step that adds an area is started on an address space with this many
MaxAreas == 5

MemProcs == 0..(MaxMemProcs - 1)

USER_STACK_SIZE == PAGE_SIZE * 2

TRAP_CONTEXT_BASE == TRAMPOLINE - PAGE_SIZE

UserStackBase == TRAP_CONTEXT_BASE - 8 * (PAGE_SIZE + USER_STACK_SIZE)

trap_cx_bottom_from_tid(tid) == TRAP_CONTEXT_BASE - tid * PAGE_SIZE

ustack_bottom_from_tid(tid) == UserStackBase + tid * (PAGE_SIZE + USER_STACK_SIZE)

\* a < b on usize
ULt(a, b) == IF (a < 0) = (b < 0) THEN a < b ELSE b < 0

ULe(a, b) == a = b \/ ULt(a, b)

VirtAddr_floor(va) == va \div PAGE_SIZE

VirtAddr_ceil(va) == IF va = 0 THEN 0 ELSE (va - 1 + PAGE_SIZE) \div PAGE_SIZE

page_offset(va) == va % PAGE_SIZE

aligned(va) == page_offset(va) = 0

\* VirtAddr::from(VirtPageNum)
VirtAddr_from_vpn(vpn) == vpn * PAGE_SIZE

(***************************************************************************)
(* The arithmetic of mmap and munmap on the values themselves.  A usize    *)
(* has UsizeBits bits and a virtual address VaBits (VA_WIDTH_SV39), both   *)
(* scaled down; a page number has VaBits - 12.  Below, a word is the       *)
(* unsigned value of a usize, and raw addresses and page numbers are the   *)
(* fields of VirtAddr and VirtPageNum.                                     *)
(***************************************************************************)
VaBits == 20

UsizeBits == 24

\* the unsigned value of a usize that is written as its signed value
usize_of(v) == v % (2 ^ UsizeBits)

\* the signed value a word is written as
word_of(u) == IF u >= 2 ^ (UsizeBits - 1) THEN u - 2 ^ UsizeBits ELSE u

\* From<usize> for VirtAddr: the low VaBits bits
VirtAddr_from(v) == v % (2 ^ VaBits)

\* From<VirtAddr> for usize: the sign is extended
usize_from_VirtAddr(va) ==
    IF va >= 2 ^ (VaBits - 1) THEN va + (2 ^ UsizeBits - 2 ^ VaBits) ELSE va

\* usize::checked_add
checked_add(a, b) == IF a + b >= 2 ^ UsizeBits THEN <<>> ELSE <<a + b>>

\* VirtAddr::floor and VirtAddr::ceil on a raw address
raw_floor(va) == va \div PAGE_SIZE

raw_ceil(va) == IF va = 0 THEN 0 ELSE (va - 1 + PAGE_SIZE) \div PAGE_SIZE

\* the raw page number of a page number written as its signed value
raw_vpn(vpn) == vpn % (2 ^ (VaBits - 12))

\* the signed value a raw page number is written as; the number after the
\* last page is written 0
signed_vpn(n) == IF n >= 2 ^ (VaBits - 13) THEN n - 2 ^ (VaBits - 12) ELSE n

align_up(addr, align) == ((addr + align - 1) \div align) * align

\* byte k of the little-endian image of the machine word w
WordByte(w, k) == IF k < 4 THEN (w \div (256 ^ k)) % 256 ELSE IF w < 0 THEN 255 ELSE 0

\* the machine word whose little-endian image is the eight bytes b[0..7]
WordOf(b) ==
    b[0] + b[1] * 256 + b[2] * 65536
    + (IF b[3] >= 128 THEN b[3] - 256 ELSE b[3]) * 16777216

\* a word image is one this model can read back: its high half is the sign
WordReadable(b) == \A k \in 4..7 : b[k] = (IF b[3] >= 128 THEN 255 ELSE 0)

ZeroPage == <<>>

PageLoad(pg, off) == IF off \in DOMAIN pg THEN pg[off] ELSE 0

\* the function f without the argument a
Without(f, a) == [b \in DOMAIN f \ {a} |-> f[b]]

\* the function f with f[a] = v
With(f, a, v) == (a :> v) @@ f


\* MapPermission::from_bits(prot as u8): bits 1..4 are R, W, X, U
MapPermission_from_bits(prot) ==
    IF (prot % 256) % 2 = 1 \/ (prot % 256) >= 32 THEN <<>>
    ELSE <<{f \in {"R", "W", "X", "U"} :
              ((prot % 256) \div (CASE f = "R" -> 2 [] f = "W" -> 4
                                    [] f = "X" -> 8 [] f = "U" -> 16)) % 2 = 1}>>

\* the physical page of the trampoline code
strampoline == 0 - 1

fail(x) == [x EXCEPT !.ok = FALSE]

\* frame_alloc: a zeroed frame that is not in use, the lowest; None when no
\* frame is left
frame_alloc(x) ==
    LET free == (0..(MaxFrames - 1)) \ DOMAIN x.frames IN
    IF free = {}
    THEN [ppn |-> 0, x |-> [x EXCEPT !.oom = TRUE, !.ok = FALSE]]
    ELSE LET ppn == CHOOSE n \in free : \A m \in free : n <= m IN
         [ppn |-> ppn, x |-> [x EXCEPT !.frames = With(@, ppn, ZeroPage)]]

\* Drop for FrameTracker
frame_dealloc(x, ppn) ==
    IF ppn \notin DOMAIN x.frames THEN fail(x)
    ELSE [x EXCEPT !.frames = Without(@, ppn)]

\* PageTable::map
PageTable_map(x, vpn, ppn, flags) ==
    IF ~x.ok THEN x
    ELSE IF vpn \in DOMAIN x.ms.page_table THEN fail(x)
    ELSE [x EXCEPT !.ms.page_table = With(@, vpn, [ppn |-> ppn, flags |-> flags \cup {"V"}])]

\* PageTable::unmap
PageTable_unmap(x, vpn) ==
    IF ~x.ok THEN x
    ELSE IF vpn \notin DOMAIN x.ms.page_table THEN fail(x)
    ELSE [x EXCEPT !.ms.page_table = Without(@, vpn)]

MapArea_new(start_va, end_va, map_type, map_perm) ==
    [start |-> VirtAddr_floor(start_va), end |-> VirtAddr_ceil(end_va),
     data_frames |-> <<>>, map_type |-> map_type, map_perm |-> map_perm]

MapArea_from_another(another) ==
    [start |-> another.start, end |-> another.end, data_frames |-> <<>>,
     map_type |-> another.map_type, map_perm |-> another.map_perm]

\* the page numbers of the half-open range of an area, lowest first
\* of a range that VPNRange::new accepted; an end written 0 after a start of
\* the high half is the number after the last page
RECURSIVE VPNRange(_, _)
VPNRange(start, end) ==
    IF start = end \/ ~(ULt(start, end) \/ (start < 0 /\ end = 0)) THEN <<>>
    ELSE <<start>> \o VPNRange(start + 1, end)

\* MapArea::check_overlapping(...).is_some(), start_vpn and end_vpn raw
check_overlapping(area, start_vpn, end_vpn) ==
    ~(end_vpn < raw_vpn(area.start) \/ start_vpn > raw_vpn(area.end))

\* MapArea::map_one of a Framed area
map_one(xa, vpn) ==
    IF ~xa.x.ok THEN xa
    ELSE LET f == frame_alloc(xa.x) IN
         IF ~f.x.ok THEN [xa EXCEPT !.x = f.x]
         ELSE [x |-> PageTable_map(f.x, vpn, f.ppn, xa.area.map_perm),
               area |-> [xa.area EXCEPT !.data_frames = With(@, vpn, f.ppn)]]

RECURSIVE MapArea_map_from(_, _)
MapArea_map_from(xa, vpns) ==
    IF vpns = <<>> THEN xa ELSE MapArea_map_from(map_one(xa, Head(vpns)), Tail(vpns))

\* MapArea::map
MapArea_map(x, area) ==
    MapArea_map_from([x |-> x, area |-> area], VPNRange(area.start, area.end))

\* faulty variant: the frame of the page is kept
unmap_one_keep_frame(xa, vpn) ==
    IF ~xa.x.ok THEN xa ELSE [xa EXCEPT !.x = PageTable_unmap(xa.x, vpn)]

\* MapArea::unmap_one
unmap_one(xa, vpn) ==
    IF ~xa.x.ok THEN xa
    ELSE LET x1 == IF vpn \in DOMAIN xa.area.data_frames
                   THEN frame_dealloc(xa.x, xa.area.data_frames[vpn]) ELSE xa.x
         IN  [x |-> PageTable_unmap(x1, vpn),
              area |-> [xa.area EXCEPT !.data_frames =
                            IF vpn \in DOMAIN @ THEN Without(@, vpn) ELSE @]]

RECURSIVE MapArea_unmap_from(_, _)
MapArea_unmap_from(xa, vpns) ==
    IF vpns = <<>> THEN xa ELSE MapArea_unmap_from(unmap_one(xa, Head(vpns)), Tail(vpns))

\* MapArea::unmap
MapArea_unmap(x, area) ==
    MapArea_unmap_from([x |-> x, area |-> area], VPNRange(area.start, area.end)).x

\* Drop for MapArea: its frame trackers are dropped, lowest page first
RECURSIVE MapArea_drop_from(_, _, _)
MapArea_drop_from(x, area, vpns) ==
    IF vpns = <<>> THEN x
    ELSE MapArea_drop_from(
             IF Head(vpns) \in DOMAIN area.data_frames
             THEN frame_dealloc(x, area.data_frames[Head(vpns)]) ELSE x,
             area, Tail(vpns))

MapArea_drop(x, area) == MapArea_drop_from(x, area, VPNRange(area.start, area.end))

\* the bytes data are stored from va on through the page table of the context
StoreBytes(x, va, data) ==
    LET at(i) == va + (i - 1)
        ppn_of(i) == x.ms.page_table[VirtAddr_floor(at(i))].ppn
        written(ppn) == {i \in 1..Len(data) : ppn_of(i) = ppn}
        page(ppn) ==
            LET pg == x.frames[ppn]
                set == {page_offset(at(i)) : i \in {j \in written(ppn) : data[j] # 0}}
                clr == {page_offset(at(i)) : i \in {j \in written(ppn) : data[j] = 0}}
            IN  [o \in (DOMAIN pg \ clr) \cup set |->
                    IF o \in set
                    THEN data[CHOOSE i \in written(ppn) : page_offset(at(i)) = o]
                    ELSE pg[o]]
    IN  IF ~x.ok THEN x
        ELSE IF \E i \in 1..Len(data) :
                    \/ VirtAddr_floor(at(i)) \notin DOMAIN x.ms.page_table
                    \/ ppn_of(i) \notin DOMAIN x.frames
        THEN fail(x)
        ELSE [x EXCEPT !.frames = [ppn \in DOMAIN @ |->
                                      IF written(ppn) = {} THEN @[ppn] ELSE page(ppn)]]

StoreByte(x, va, b) == StoreBytes(x, va, <<b>>)

\* the byte at va through the page table pt
LoadByte(pt, fr, va) ==
    LET vpn == VirtAddr_floor(va) IN
    IF vpn \in DOMAIN pt /\ pt[vpn].ppn \in DOMAIN fr
    THEN PageLoad(fr[pt[vpn].ppn], page_offset(va)) ELSE 0 - 1

\* *translated_refmut(token, va as *mut usize) = w
StoreWord(x, va, w) == StoreBytes(x, va, [i \in 1..8 |-> WordByte(w, i - 1)])

\* MapArea::copy_data: the data go to the start of the first page on
copy_data(x, area, data) == StoreBytes(x, VirtAddr_from_vpn(area.start), data)

\* MemorySet::push
MemorySet_push(x, map_area, data) ==
    LET m == MapArea_map(x, map_area)
        c == IF data = <<>> THEN m.x ELSE copy_data(m.x, m.area, data[1])
    IN  IF ~c.ok THEN c ELSE [c EXCEPT !.ms.areas = Append(@, m.area)]

insert_framed_area(x, start_va, end_va, permission) ==
    MemorySet_push(x, MapArea_new(start_va, end_va, "Framed", permission), <<>>)

\* MemorySet::remove_area_with_start_vpn
remove_area_with_start_vpn(x, start_vpn) ==
    LET found == {i \in 1..Len(x.ms.areas) : x.ms.areas[i].start = start_vpn} IN
    IF ~x.ok \/ found = {} THEN x
    ELSE LET idx == CHOOSE i \in found : \A j \in found : i <= j
             u == MapArea_unmap(x, x.ms.areas[idx])
         IN  IF ~u.ok THEN u ELSE [u EXCEPT !.ms.areas = RemoveAt(@, idx)]

\* MemorySet::new_bare and map_trampoline
new_bare == [page_table |-> <<>>, areas |-> <<>>, brk |-> 0, heap_start |-> 0]

map_trampoline(x) ==
    PageTable_map(x, VirtAddr_floor(TRAMPOLINE), strampoline, {"R", "X"})

\* MemorySet::expand_heap
expand_heap(x, new_brk) ==
    LET old_page == align_up(x.ms.brk, PAGE_SIZE)
        new_page == align_up(new_brk, PAGE_SIZE)
    IN  IF ULt(old_page, new_page)
        THEN insert_framed_area(x, old_page, new_page, {"R", "W", "U"})
        ELSE x
(***************************************************************************)
(* The calls on an address space.                                          *)
(***************************************************************************)
\* faulty variant: an area that starts at the page matches
munmap_matches_start(area, start_vpn, end_vpn) == area.start = start_vpn

\* the area is the one munmap looks for
munmap_matches(area, start_vpn, end_vpn) ==
    area.start = start_vpn /\ area.end = end_vpn

\* what a call came to before it touched the page table: Err(-1), a failed
\* assertion, or the range of raw page numbers it goes on with
RangeErr == [kind |-> "err", start_vpn |-> 0, end_vpn |-> 0]

RangeOf(kind, start_vpn, end_vpn) ==
    [kind |-> kind, start_vpn |-> start_vpn, end_vpn |-> end_vpn]

\* MemorySet::munmap up to the search for the area
munmap_range(start, len) ==
    IF len = 0 THEN RangeErr
    ELSE IF ~aligned(VirtAddr_from(start)) THEN RangeErr
    ELSE IF checked_add(usize_of(start), usize_of(len)) = <<>> THEN RangeErr
    ELSE IF raw_ceil(VirtAddr_from(checked_add(usize_of(start), usize_of(len))[1]))
            <= raw_floor(VirtAddr_from(start))
    THEN RangeErr
    ELSE RangeOf("range", raw_floor(VirtAddr_from(start)),
                 raw_ceil(VirtAddr_from(checked_add(usize_of(start), usize_of(len))[1])))

\* MemorySet::munmap: the context afterwards and Ok(()) / Err(-1) as 0 / -1
munmap(x, start, len) ==
    LET r == munmap_range(start, len)
        found == {i \in 1..Len(x.ms.areas) :
                     munmap_matches(x.ms.areas[i], signed_vpn(r.start_vpn),
                                    signed_vpn(r.end_vpn))}
    IN  IF r.kind = "err" \/ found = {}
        THEN [x |-> x, ret |-> 0 - 1]
        ELSE LET idx == CHOOSE i \in found : \A j \in found : i <= j
                 u == MapArea_unmap(x, x.ms.areas[idx])
             IN  [x |-> IF u.ok THEN [u EXCEPT !.ms.areas = RemoveAt(@, idx)] ELSE u,
                  ret |-> 0]

\* the end address of the first area that holds addr, else the next page
next_addr_after(areas, addr) ==
    LET holds == {i \in 1..Len(areas) :
                     /\ ULe(VirtAddr_from_vpn(areas[i].start), addr)
                     /\ ULt(addr, VirtAddr_from_vpn(areas[i].end))}
    IN  IF holds = {} THEN addr + PAGE_SIZE
        ELSE VirtAddr_from_vpn(areas[CHOOSE i \in holds : \A j \in holds : i <= j].end)

\* MemorySet::find_free_area: the loop from addr on
RECURSIVE find_free_area_from(_, _, _)
find_free_area_from(x, len, addr) ==
    LET start_vpn == raw_floor(VirtAddr_from(addr))
        end_vpn == raw_ceil(VirtAddr_from(addr + len))
        conflict == \E i \in 1..Len(x.ms.areas) :
                        check_overlapping(x.ms.areas[i], start_vpn, end_vpn)
    IN  IF ~conflict THEN [x |-> [x EXCEPT !.ms.brk = addr + len], addr |-> addr]
        ELSE find_free_area_from(x, len, next_addr_after(x.ms.areas, addr))

find_free_area(x, len) == find_free_area_from(x, align_up(len, PAGE_SIZE), x.ms.brk)

\* MemorySet::mmap from the address addr on, up to MapArea::new: the range
\* of raw page numbers, Err(-1), or the assertion of VPNRange::new failed
mmap_range_at(areas, addr, len) ==
    LET start_va == VirtAddr_from(addr)
        end == checked_add(usize_from_VirtAddr(start_va), usize_of(len))
    IN  IF end = <<>> THEN RangeErr
        ELSE IF \E i \in 1..Len(areas) :
                   check_overlapping(areas[i], raw_floor(start_va),
                                     raw_ceil(VirtAddr_from(end[1])))
        THEN RangeErr
        ELSE IF raw_ceil(VirtAddr_from(end[1])) < raw_floor(start_va)
        THEN RangeOf("panic", raw_floor(start_va), raw_ceil(VirtAddr_from(end[1])))
        ELSE RangeOf("range", raw_floor(start_va), raw_ceil(VirtAddr_from(end[1])))

\* MemorySet::mmap without a file: the context afterwards, the address
\* returned, -1 for Err(-1), and the range
mmap(x, start, len, prot) ==
    IF len = 0 THEN [x |-> x, ret |-> 0 - 1, range |-> RangeErr]
    ELSE IF start # 0 /\ ~aligned(VirtAddr_from(start))
    THEN [x |-> x, ret |-> 0 - 1, range |-> RangeErr]
    ELSE LET f == IF start = 0 THEN find_free_area(x, len) ELSE [x |-> x, addr |-> start]
             r == mmap_range_at(f.x.ms.areas, f.addr, len)
             start_va == word_of(usize_from_VirtAddr(VirtAddr_from(f.addr)))
             end_va == word_of(usize_from_VirtAddr(VirtAddr_from(
                           usize_from_VirtAddr(VirtAddr_from(f.addr)) + usize_of(len))))
             perm == IF MapPermission_from_bits(prot) = <<>> THEN {"R", "W", "U"}
                     ELSE MapPermission_from_bits(prot)[1]
         IN  IF r.kind = "err" THEN [x |-> f.x, ret |-> 0 - 1, range |-> r]
             ELSE IF r.kind = "panic" THEN [x |-> fail(f.x), ret |-> 0 - 1, range |-> r]
             ELSE [x |-> insert_framed_area(f.x, start_va, end_va, perm),
                   ret |-> start_va, range |-> r]

\* sys_brk: the context afterwards and the value returned
sys_brk(x, addr) ==
    IF addr = 0 \/ ULt(addr, x.ms.brk) THEN [x |-> x, ret |-> x.ms.brk]
    ELSE LET e == expand_heap(x, addr) IN
         [x |-> IF e.ok THEN [e EXCEPT !.ms.brk = addr] ELSE e, ret |-> addr]

\* the program files of the model: entry point and Load segments (address,
\* size in memory, flags, file bytes)
ElfFiles ==
    [init |-> [entry |-> 4096,
               segs |-> <<[vaddr |-> 4096, memsz |-> 4096, flags |-> {"R", "X"},
                           data |-> <<19>>]>>],
     prog |-> [entry |-> 4112,
               segs |-> <<[vaddr |-> 4096, memsz |-> 4096, flags |-> {"R", "W"},
                           data |-> <<23, 29>>]>>]]

RECURSIVE from_elf_segs(_, _, _)
from_elf_segs(x, segs, max_end_vpn) ==
    IF segs = <<>> THEN [x |-> x, max_end_vpn |-> max_end_vpn]
    ELSE LET ph == Head(segs)
             map_area == MapArea_new(ph.vaddr, ph.vaddr + ph.memsz, "Framed",
                                     ph.flags \cup {"U"})
         IN  from_elf_segs(MemorySet_push(x, map_area, <<ph.data>>), Tail(segs),
                           IF ULt(max_end_vpn, map_area.end) THEN map_area.end
                           ELSE max_end_vpn)

\* MemorySet::from_elf: the context whose MemorySet is the new one, and the entry
from_elf(x, elf) ==
    LET s == from_elf_segs(map_trampoline([x EXCEPT !.ms = new_bare]), elf.segs, 0)
        heap_start == align_up(VirtAddr_from_vpn(s.max_end_vpn), PAGE_SIZE)
    IN  [x |-> [s.x EXCEPT !.ms.heap_start = heap_start, !.ms.brk = heap_start],
         entry |-> elf.entry]

\* faulty variant: no page is copied
copy_area_pages_none(x, src, vpns) == x

\* the copy of the pages of one area from the page table src
RECURSIVE copy_area_pages(_, _, _)
copy_area_pages(x, src, vpns) ==
    IF vpns = <<>> \/ ~x.ok THEN x
    ELSE LET vpn == Head(vpns) IN
         IF vpn \notin DOMAIN src \/ vpn \notin DOMAIN x.ms.page_table THEN fail(x)
         ELSE IF src[vpn].ppn \notin DOMAIN x.frames THEN fail(x)
         ELSE copy_area_pages(
                  [x EXCEPT !.frames[x.ms.page_table[vpn].ppn] = x.frames[src[vpn].ppn]],
                  src, Tail(vpns))

RECURSIVE from_existed_user_areas(_, _, _)
from_existed_user_areas(x, user_space, areas) ==
    IF areas = <<>> \/ ~x.ok THEN x
    ELSE LET area == Head(areas)
             pushed == MemorySet_push(x, MapArea_from_another(area), <<>>)
         IN  from_existed_user_areas(
                 copy_area_pages(pushed, user_space.page_table,
                                 VPNRange(area.start, area.end)),
                 user_space, Tail(areas))

\* MemorySet::from_existed_user
from_existed_user(x, user_space) ==
    from_existed_user_areas(map_trampoline([x EXCEPT !.ms = new_bare]),
                            user_space, user_space.areas)

\* Drop for the areas of a MemorySet, first area first
RECURSIVE drop_areas(_, _)
drop_areas(x, areas) ==
    IF areas = <<>> THEN x ELSE drop_areas(MapArea_drop(x, Head(areas)), Tail(areas))

\* MemorySet::recycle_data_pages: areas.clear()
recycle_data_pages(x) == [drop_areas(x, x.ms.areas) EXCEPT !.ms.areas = <<>>]

\* TaskUserRes::alloc_user_res
alloc_user_res(x, tid) ==
    insert_framed_area(
        insert_framed_area(x, ustack_bottom_from_tid(tid),
                           ustack_bottom_from_tid(tid) + USER_STACK_SIZE, {"R", "W", "U"}),
        trap_cx_bottom_from_tid(tid), trap_cx_bottom_from_tid(tid) + PAGE_SIZE, {"R", "W"})

\* TaskUserRes::dealloc_user_res
dealloc_user_res(x, tid) ==
    remove_area_with_start_vpn(
        remove_area_with_start_vpn(x, VirtAddr_floor(ustack_bottom_from_tid(tid))),
        VirtAddr_floor(trap_cx_bottom_from_tid(tid)))

ustack_top(tid) == ustack_bottom_from_tid(tid) + USER_STACK_SIZE

\* the argument strings of the model (bytes without the NUL)
ArgStrings == {<<97>>, <<98, 99>>}

\* the argument vectors handed to execve
ArgVectors == {<<>>, <<<<97>>>>, <<<<98, 99>>, <<97>>>>}

\* ProcessControlBlock::exec, the loop that pushes the strings: argument i
\* (from 0) goes below user_sp and its address into argv[i]
RECURSIVE exec_push_args(_, _, _, _, _)
exec_push_args(x, args, i, user_sp, argv_base) ==
    IF i >= Len(args) THEN [x |-> x, user_sp |-> user_sp]
    ELSE exec_push_args(
             StoreBytes(StoreWord(x, argv_base + i * 8, user_sp - (Len(args[i + 1]) + 1)),
                        user_sp - (Len(args[i + 1]) + 1), args[i + 1] \o <<0>>),
             args, i + 1, user_sp - (Len(args[i + 1]) + 1), argv_base)

\* exec: the trap context written once the strings are pushed; user_sp is
\* aligned down to the machine word
exec_trap_cx(entry, args, argv_base, pushed) ==
    [x |-> pushed.x,
     trap_cx |-> [sepc |-> entry, sp |-> pushed.user_sp - (pushed.user_sp % 8),
                  a0 |-> Len(args), a1 |-> argv_base]]

\* exec: the argument vector on the new user stack of the context res
exec_push(entry, res, args, argv_base) ==
    exec_trap_cx(entry, args, argv_base,
                 exec_push_args(StoreWord(res, argv_base + Len(args) * 8, 0),
                                args, 0, argv_base, argv_base))

\* exec: the old MemorySet is dropped when the new one e.x.ms is stored,
\* then the user resources of the main thread are allocated
exec_replace(old, e, args) ==
    exec_push(e.entry,
              alloc_user_res([drop_areas([e.x EXCEPT !.ms = old], old.areas)
                                 EXCEPT !.ms = e.x.ms], 0),
              args, ustack_top(0) - (Len(args) + 1) * 8)

\* ProcessControlBlock::exec on the context of the process: the result is
\* the context and the trap context written
exec(x, elf, args) == exec_replace(x.ms, from_elf(x, elf), args)
(***************************************************************************)
(* User buffers and descriptors (mm/pagetable.rs, fs/stdio.rs,             *)
(* syscall/fs.rs).  A descriptor table is the sequence of its slots, slot  *)
(* fd at index fd + 1; a slot is <<>> or <<file>>.                         *)
(***************************************************************************)
Stdin == [name |-> "Stdin", readable |-> TRUE, writable |-> FALSE]

Stdout == [name |-> "Stdout", readable |-> FALSE, writable |-> TRUE]

\* the fd_table of ProcessControlBlock::new
InitFdTable == << <<Stdin>>, <<Stdout>>, <<Stdout>> >>

\* physical page 0; the frames of the allocator are numbered from 0 here and
\* all lie above it
PhysPageZero == 0 - 2

\* PageTableEntry::empty
PageTableEntry_empty == [ppn |-> PhysPageZero, flags |-> {}]

\* entries of one last-level table of the three-level tree
PtesPerTable == 512

\* SV39PageTable::find_pte: None when a table on the way is missing, else the
\* last-level entry, valid or not.  The last-level table of a page number is
\* there when one of its entries is valid.
find_pte(pt, vpn) ==
    IF vpn \in DOMAIN pt THEN <<pt[vpn]>>
    ELSE IF \E w \in DOMAIN pt : w \div PtesPerTable = vpn \div PtesPerTable
    THEN <<PageTableEntry_empty>>
    ELSE <<>>

\* SV39PageTable::translate
translate(pt, vpn) == find_pte(pt, vpn)

UMin(a, b) == IF ULt(a, b) THEN a ELSE b

\* end_va of one pass of the loop: the address of the stepped page number or
\* VirtAddr::from(end), the lesser.  The stepped number of the last page of
\* the address space is not cut to the width of a page number: its address is
\* above every VirtAddr::from.
slice_end_va(start, end) ==
    IF VirtAddr_floor(start) + 1 = 0 THEN end
    ELSE UMin(VirtAddr_from_vpn(VirtAddr_floor(start) + 1), end)

\* the loop of translated_byte_buffer from start: ok is FALSE when an unwrap
\* failed, v holds the slices, each the bytes from..to-1 of page ppn (vpn is
\* the page number that was translated)
RECURSIVE translated_slices(_, _, _)
translated_slices(pt, start, end) ==
    IF ~ULt(start, end) THEN [ok |-> TRUE, v |-> <<>>]
    ELSE IF translate(pt, VirtAddr_floor(start)) = <<>> THEN [ok |-> FALSE, v |-> <<>>]
    ELSE [ok |-> translated_slices(pt, slice_end_va(start, end), end).ok,
          v |-> <<[vpn |-> VirtAddr_floor(start),
                   ppn |-> translate(pt, VirtAddr_floor(start))[1].ppn,
                   from |-> page_offset(start),
                   to |-> IF page_offset(slice_end_va(start, end)) = 0
                          THEN PAGE_SIZE
                          ELSE page_offset(slice_end_va(start, end))]>>
                \o translated_slices(pt, slice_end_va(start, end), end).v]

translated_byte_buffer(pt, ptr, len) == translated_slices(pt, ptr, ptr + len)

\* UserBuffer::len
RECURSIVE UserBuffer_len(_)
UserBuffer_len(v) ==
    IF v = <<>> THEN 0 ELSE (Head(v).to - Head(v).from) + UserBuffer_len(Tail(v))

\* the bytes of the slice s, read from the frames fr
SliceBytes(fr, s) == [i \in 1..(s.to - s.from) |-> PageLoad(fr[s.ppn], s.from + i - 1)]

\* a slice that lies in no frame: what is read there, and whether the access
\* traps, is not known
Wild(fr, v) == \E i \in 1..Len(v) : v[i].ppn \notin DOMAIN fr

\* core::str::from_utf8 on the bytes these runs hold: Ok for ASCII
from_utf8_ok(bytes) == \A i \in 1..Len(bytes) : bytes[i] < 128

\* Stdout::write: each slice is decoded and printed
Stdout_write(fr, v) ==
    IF Wild(fr, v)
    THEN [outcomes |-> {"panic", "return"}, ret |-> UserBuffer_len(v), v |-> v]
    ELSE IF \E i \in 1..Len(v) : ~from_utf8_ok(SliceBytes(fr, v[i]))
    THEN [outcomes |-> {"panic"}, ret |-> 0, v |-> v]
    ELSE [outcomes |-> {"return"}, ret |-> UserBuffer_len(v), v |-> v]

\* Stdin::read: one character of the console goes to the first byte
Stdin_read(fr, v) ==
    IF UserBuffer_len(v) # 1
    THEN [outcomes |-> {"panic"}, ret |-> 0, v |-> <<>>]
    ELSE IF Wild(fr, v)
    THEN [outcomes |-> {"panic", "return"}, ret |-> 1, v |-> v]
    ELSE [outcomes |-> {"return"}, ret |-> 1, v |-> v]

FileReturn(ret) == [outcomes |-> {"return"}, ret |-> ret, v |-> <<>>]

FilePanic == [outcomes |-> {"panic"}, ret |-> 0, v |-> <<>>]

\* sys_write_stdio of the process with page table pt and descriptor table fd_table:
\* the outcomes, the value returned and the slices read through
sys_write_stdio(pt, fd_table, fr, fd, buf, len) ==
    IF fd >= Len(fd_table) THEN FileReturn(0 - 1)
    ELSE IF fd_table[fd + 1] = <<>> THEN FileReturn(0 - 1)
    ELSE IF ~fd_table[fd + 1][1].writable THEN FileReturn(0 - 1)
    ELSE IF ~translated_byte_buffer(pt, buf, len).ok THEN FilePanic
    ELSE IF fd_table[fd + 1][1].name = "Stdout"
    THEN Stdout_write(fr, translated_byte_buffer(pt, buf, len).v)
    ELSE FilePanic

\* sys_read_stdio: the slices are those written through
sys_read_stdio(pt, fd_table, fr, fd, buf, len) ==
    IF fd >= Len(fd_table) THEN FileReturn(0 - 1)
    ELSE IF fd_table[fd + 1] = <<>> THEN FileReturn(0 - 1)
    ELSE IF ~fd_table[fd + 1][1].readable THEN FileReturn(0 - 1)
    ELSE IF ~translated_byte_buffer(pt, buf, len).ok THEN FilePanic
    ELSE IF fd_table[fd + 1][1].name = "Stdin"
    THEN Stdin_read(fr, translated_byte_buffer(pt, buf, len).v)
    ELSE FilePanic

\* most slots of a descriptor table: no call that adds a slot is started on
\* a table this long
MaxFds == 4

\* the outcome of a call that works on the descriptor table only
FdReturn(ret, fd_table) == [outcomes |-> {"return"}, ret |-> ret, fd_table |-> fd_table]

FdPanic(fd_table) == [outcomes |-> {"panic"}, ret |-> 0, fd_table |-> fd_table]

\* sys_close on the descriptor table
sys_close_fd(fd_table, fd) ==
    IF fd >= Len(fd_table) THEN FdReturn(0 - 1, fd_table)
    ELSE IF fd_table[fd + 1] = <<>> THEN FdReturn(0 - 1, fd_table)
    ELSE FdReturn(0, [fd_table EXCEPT ![fd + 1] = <<>>])

\* fd_table.iter().position(|f| f.is_none()).unwrap_or(fd_table.len())
first_free_fd(fd_table) ==
    IF \E i \in 1..Len(fd_table) : fd_table[i] = <<>>
    THEN (CHOOSE i \in 1..Len(fd_table) :
            fd_table[i] = <<>> /\ \A j \in 1..(i - 1) : fd_table[j] # <<>>) - 1
    ELSE Len(fd_table)

sys_dup(fd_table, fd) ==
    IF fd >= Len(fd_table) THEN FdReturn(0 - 1, fd_table)
    ELSE IF fd_table[fd + 1] = <<>> THEN FdReturn(0 - 1, fd_table)
    ELSE IF first_free_fd(fd_table) = Len(fd_table)
    THEN FdReturn(first_free_fd(fd_table), Append(fd_table, fd_table[fd + 1]))
    ELSE FdReturn(first_free_fd(fd_table),
                  [fd_table EXCEPT ![first_free_fd(fd_table) + 1] = fd_table[fd + 1]])

\* fd_table.resize(n, None)
fd_table_resize(fd_table, n) ==
    [i \in 1..n |-> IF i <= Len(fd_table) THEN fd_table[i] ELSE <<>>]

sys_dup3(fd_table, old_fd, new_fd, flags) ==
    IF flags # 0 THEN FdReturn(0 - 1, fd_table)
    ELSE IF old_fd >= Len(fd_table) THEN FdReturn(0 - 1, fd_table)
    ELSE IF fd_table[old_fd + 1] = <<>> THEN FdReturn(0 - 1, fd_table)
    ELSE IF old_fd = new_fd THEN FdReturn(0 - 1, fd_table)
    ELSE FdReturn(new_fd,
                  [(IF new_fd >= Len(fd_table) THEN fd_table_resize(fd_table, new_fd + 1)
                    ELSE fd_table) EXCEPT ![new_fd + 1] = fd_table[old_fd + 1]])

\* sys_getdents64: Stdin and Stdout are neither a directory nor an OSInode,
\* so a descriptor of these runs that passes the first two tests fails later
sys_getdents64(fd_table, fd, len) ==
    IF fd >= Len(fd_table) THEN FdReturn(0 - 1, fd_table)
    ELSE IF fd_table[fd + 1] = <<>> THEN FdReturn(0 - 1, fd_table)
    ELSE FdReturn(0 - 1, fd_table)

\* sys_fstat for fd other than AT_FDCWD: fd_table[fd] is indexed as it comes;
\* get_stat of Stdin and Stdout is todo!()
sys_fstat(fd_table, fd) ==
    IF fd >= Len(fd_table) THEN FdPanic(fd_table)
    ELSE IF fd_table[fd + 1] = <<>> THEN FdReturn(0 - 1, fd_table)
    ELSE FdPanic(fd_table)

(***************************************************************************)
(* User buffers (mm/pagetable.rs).  A byte of a slice is named by the      *)
(* frame and the offset in it.                                             *)
(***************************************************************************)
\* start + len in translated_byte_buffer goes past the top of the machine
\* word: a panic with overflow checks, else the sum wraps
buffer_end_overflows(ptr, len) == ptr < 0 /\ ptr + len >= 0 /\ len > 0

\* translated_byte_buffer: every way the call can end, and the slices
translated_byte_buffer_call(pt, ptr, len) ==
    [outcomes |-> IF buffer_end_overflows(ptr, len) THEN {"panic", "return"}
                  ELSE IF translated_byte_buffer(pt, ptr, len).ok THEN {"return"}
                  ELSE {"panic"},
     v |-> translated_byte_buffer(pt, ptr, len).v]

\* UserBuffer::into_iter
UserBuffer_into_iter == [current_buffer |-> 0, current_idx |-> 0]

\* UserBufferIterator::next: the item, the iterator after the call, and
\* whether the index lay outside the slice
UserBufferIterator_next(buffers, it) ==
    IF it.current_buffer >= Len(buffers) THEN [item |-> <<>>, it |-> it, panic |-> FALSE]
    ELSE IF it.current_idx >= buffers[it.current_buffer + 1].to
                              - buffers[it.current_buffer + 1].from
    THEN [item |-> <<>>, it |-> it, panic |-> TRUE]
    ELSE [item |-> <<[ppn |-> buffers[it.current_buffer + 1].ppn,
                      off |-> buffers[it.current_buffer + 1].from + it.current_idx]>>,
          it |-> IF it.current_idx + 1 = buffers[it.current_buffer + 1].to
                                         - buffers[it.current_buffer + 1].from
                 THEN [current_buffer |-> it.current_buffer + 1, current_idx |-> 0]
                 ELSE [it EXCEPT !.current_idx = @ + 1],
          panic |-> FALSE]
(***************************************************************************)
(* The inputs and the initial state of the address-space runs.             *)
(***************************************************************************)
\* the address every trap of these runs is taken at
MemPc == 4100

\* the calls of mmap: start and len
MmapCalls ==
    {<<0, PAGE_SIZE>>, <<0, PAGE_SIZE + 1>>, <<0, 0>>, <<4 * PAGE_SIZE, PAGE_SIZE>>,
     <<4 * PAGE_SIZE, 0>>, <<5 * PAGE_SIZE, PAGE_SIZE>>, <<3 * PAGE_SIZE + 8, PAGE_SIZE>>}

\* PROT_READ | PROT_WRITE
MmapProts == {3}

\* the calls of munmap: start and len
MunmapCalls ==
    {<<3 * PAGE_SIZE, PAGE_SIZE>>, <<4 * PAGE_SIZE, PAGE_SIZE>>, <<2 * PAGE_SIZE, PAGE_SIZE>>,
     <<3 * PAGE_SIZE, 2 * PAGE_SIZE>>, <<3 * PAGE_SIZE + 8, PAGE_SIZE>>,
     <<3 * PAGE_SIZE, 0>>}

BrkAddrs == {0, PAGE_SIZE, 2 * PAGE_SIZE + 2048, 3 * PAGE_SIZE, 4 * PAGE_SIZE + 1}

\* addresses user code stores a byte to
StoreAddrs == {2 * PAGE_SIZE, 5 * PAGE_SIZE + 4095}

StoreBytesOf == {7}

\* the calls of the runs with two processes
ForkBrkAddrs == {2 * PAGE_SIZE + 2048}

ForkStoreAddrs == {2 * PAGE_SIZE, 3 * PAGE_SIZE}

ExecPaths == {"prog", "none"}

MemExitCodes == {0}

NoUspace ==
    [state |-> "none", ms |-> new_bare, trap_cx |-> [sepc |-> 0, sp |-> 0, a0 |-> 0, a1 |-> 0],
     parent |-> <<>>, fd_table |-> <<>>]

\* the context of a step on the address space of process p
MemCtx(p) ==
    [ms |-> uspace[p].ms, frames |-> frames,
     ok |-> TRUE, oom |-> FALSE]

\* ProcessControlBlock::new for the init process
InitUspace ==
    LET e == from_elf([ms |-> new_bare, frames |-> <<>>,
                       ok |-> TRUE, oom |-> FALSE], ElfFiles.init)
    IN  [x |-> alloc_user_res(e.x, 0),
         trap_cx |-> [sepc |-> e.entry, sp |-> ustack_top(0), a0 |-> 0, a1 |-> 0]]

InitMem ==
    /\ uspace = [p \in MemProcs |->
                    IF p = INITPROC
                    THEN [state |-> "live", ms |-> InitUspace.x.ms,
                          trap_cx |-> InitUspace.trap_cx, parent |-> <<>>,
                          fd_table |-> InitFdTable]
                    ELSE NoUspace]
    /\ frames = InitUspace.x.frames
    /\ mev = [op |-> "none"]


(***************************************************************************)
(* The clock, TimeSpec and sys_nanosleep.                                  *)
(***************************************************************************)
CLOCK_FREQ == 12500000
MSEC_PER_SEC == 1000
NSEC_PER_SEC == 1000000000
NSEC_PER_MSEC == 1000000

\* the clock is watched every quarter of a millisecond
ClockStep == CLOCK_FREQ \div (4 * MSEC_PER_SEC)

\* the number of clock steps of a run
MaxClockSteps == 14

\* the intervals asked for, in nanoseconds below one second
SleepNanos == {0, NSEC_PER_MSEC, NSEC_PER_MSEC + NSEC_PER_MSEC \div 2}

\* get_time_ms
get_time_ms(time) == time \div (CLOCK_FREQ \div MSEC_PER_SEC)

\* TimeSpec::new
TimeSpec_new == [tv_sec |-> 0, tv_nsec |-> 0]

\* TimeSpec::from_tick; CLOCK_FREQ divides NSEC_PER_SEC, so the quotient
\* (tick % freq) * NSEC_PER_SEC / freq is taken as a product
TimeSpec_from_tick(tick) ==
    [tv_sec |-> tick \div CLOCK_FREQ,
     tv_nsec |-> (tick % CLOCK_FREQ) * (NSEC_PER_SEC \div CLOCK_FREQ)]

\* TimeSpec::now at the clock value time
TimeSpec_now(time) == TimeSpec_from_tick(time)

\* TimeSpec + TimeSpec
TimeSpec_add(a, b) ==
    [tv_sec |-> a.tv_sec + b.tv_sec + (a.tv_nsec + b.tv_nsec) \div NSEC_PER_SEC,
     tv_nsec |-> (a.tv_nsec + b.tv_nsec) % NSEC_PER_SEC]

\* TimeSpec - TimeSpec, zero when the difference is not positive
TimeSpec_sub(a, b) ==
    IF a.tv_sec < b.tv_sec \/ (a.tv_sec = b.tv_sec /\ a.tv_nsec <= b.tv_nsec)
    THEN TimeSpec_new
    ELSE IF a.tv_nsec >= b.tv_nsec
         THEN [tv_sec |-> a.tv_sec - b.tv_sec, tv_nsec |-> a.tv_nsec - b.tv_nsec]
         ELSE [tv_sec |-> a.tv_sec - b.tv_sec - 1,
               tv_nsec |-> a.tv_nsec + NSEC_PER_SEC - b.tv_nsec]

\* a <= b by Ord for TimeSpec
TimeSpec_le(a, b) ==
    a.tv_sec < b.tv_sec \/ (a.tv_sec = b.tv_sec /\ a.tv_nsec <= b.tv_nsec)

\* TimeSpec::to_ms
TimeSpec_to_ms(ts) == ts.tv_sec * MSEC_PER_SEC + ts.tv_nsec \div NSEC_PER_MSEC

\* what user memory at rem holds before the call
RemBefore == [tv_sec |-> 7, tv_nsec |-> 7]

\* sys_nanosleep up to block_current_and_run_next: end and the timer added
sys_nanosleep_block(time, req) ==
    LET end == TimeSpec_add(TimeSpec_now(time), req) IN
    [end |-> end, expire_ms |-> TimeSpec_to_ms(end)]

\* sys_nanosleep after block_current_and_run_next: the value returned and
\* what is stored at rem; ok is false when the assertion fails
sys_nanosleep_resume(time, end, signals, rem) ==
    LET now == TimeSpec_now(time) IN
    IF signals = {}
    THEN IF TimeSpec_le(end, now)
         THEN [ok |-> TRUE, ret |-> 0, rem |-> TimeSpec_new]
         ELSE [ok |-> FALSE, ret |-> 0, rem |-> rem]
    ELSE [ok |-> TRUE, ret |-> 0 - 1, rem |-> TimeSpec_sub(end, now)]

\* the thread in user mode, having made no call yet
InitSleep ==
    /\ clock = 0
    /\ sleeper = [st |-> "user", timer |-> <<>>, end |-> TimeSpec_new, req |-> 0,
                  called |-> 0, resumed |-> 0, ret |-> 0, rem |-> RemBefore,
                  signals |-> {}]

(***************************************************************************)
(* Interrupt-free cells and the context switches (hal/arch/riscv/sync.rs,  *)
(* task/mod.rs, task/processor.rs, fs/pipe.rs, syscall).  Each kernel path *)
(* is the sequence of its cell accesses, in the order of the source: a     *)
(* handle is taken by exclusive_access and given back where it is dropped. *)
(***************************************************************************)
\* threads of the handle runs; thread INITPROC is the main thread of initproc
MaxCellThreads == 2

CellThreads == 0..(MaxCellThreads - 1)

\* the idle control flow of run_tasks
IdleLoop == MaxCellThreads

\* no timer interrupt is taken in the kernel while the run queue is this long
MaxCellQueue == 3

NoCell == <<"none", 0>>
ProcessorCell == <<"PROCESSOR", 0>>
ManagerCell == <<"TASK_MANAGER", 0>>
TimersCell == <<"TIMERS", 0>>
Pid2ProcessCell == <<"PID2PCB", 0>>
PipeCell == <<"pipe.buffer", 0>>
NonblockingCell == <<"pipe.nonblocking", 0>>
TcbCell(t) == <<"tcb.inner", t>>
PcbCell(t) == <<"pcb.inner", t>>

\* faulty variant: the interrupt-enable bit is saved at every level
IntrMaskingInfo_enter_each(c) ==
    [c EXCEPT !.sie = FALSE,
              !.sie_before_masking = c.sie,
              !.nested_level = @ + 1]

\* IntrMaskingInfo::enter
IntrMaskingInfo_enter(c) ==
    [c EXCEPT !.sie = FALSE,
              !.sie_before_masking = IF c.nested_level = 0 THEN c.sie ELSE @,
              !.nested_level = @ + 1]

\* IntrMaskingInfo::exit
IntrMaskingInfo_exit(c) ==
    [c EXCEPT !.nested_level = @ - 1,
              !.sie = IF c.nested_level = 1 /\ c.sie_before_masking THEN TRUE ELSE @]

\* the steps of a path
Enter(cell) == [op |-> "enter", cell |-> cell]
Exit(cell) == [op |-> "exit", cell |-> cell]
Do(op) == [op |-> op, cell |-> NoCell]

\* a handle that is a temporary of one statement: taken and dropped
access(cell) == <<[op |-> "access", cell |-> cell]>>

\* take_current_task, current_task
cells_current_task == access(ProcessorCell)

\* manager::add_task
cells_add_task == <<Enter(ManagerCell), Do("add_task"), Exit(ManagerCell)>>

\* schedule
cells_schedule == access(ProcessorCell) \o <<Do("switch")>>

\* suspend_current_and_run_next
cells_suspend(t) ==
    cells_current_task \o access(TcbCell(t))
    \o cells_add_task \o cells_schedule

\* block_current_and_run_next: the handle of block_current_task is dropped
\* when that function returns
cells_block(t) ==
    cells_current_task \o access(TcbCell(t)) \o cells_schedule

\* current_trap_cx, current_trap_cx_user_va
cells_current_trap_cx(t) == cells_current_task \o access(TcbCell(t))

\* current_user_token, current_process().inner_exclusive_access()
cells_current_process(t) == cells_current_task \o access(PcbCell(t))

\* check_timer: wakeup_task inside the session on TIMERS
check_timer_cells ==
    <<Enter(TimersCell), Enter(ManagerCell), Do("wakeup"), Exit(ManagerCell),
      Exit(TimersCell)>>

\* trap_return
cells_trap_return(t) ==
    <<Do("sie_off")>> \o cells_current_trap_cx(t) \o cells_current_process(t)
    \o <<Do("user")>>

\* trap_handler after the match: check_signals_of_current, trap_return
cells_trap_tail(t) == cells_current_process(t) \o cells_trap_return(t)

\* the system-call arm of trap_handler around the handler
cells_syscall(t, handler) ==
    cells_current_trap_cx(t) \o <<Do("sie_on")>> \o handler
    \o cells_current_trap_cx(t) \o cells_trap_tail(t)

\* the timer arm of trap_handler
cells_timer(t) == check_timer_cells \o cells_suspend(t) \o cells_trap_tail(t)

\* sys_nanosleep
cells_nanosleep(t) ==
    cells_current_process(t)
    \o <<Enter(TimersCell), Do("add_timer"), Exit(TimersCell)>>
    \o cells_block(t)
    \o cells_current_process(t)

\* sys_wait4 of a process whose first child is no zombie at the first pass:
\* inner is dropped before suspend_current_and_run_next
cells_wait4(t) ==
    cells_current_task \o cells_current_process(t)
    \o (IF t = INITPROC
        THEN <<Enter(PcbCell(t))>> \o access(PcbCell(1)) \o <<Exit(PcbCell(t))>>
             \o cells_suspend(t)
             \o <<Enter(PcbCell(t))>> \o access(PcbCell(1)) \o <<Exit(PcbCell(t))>>
        ELSE access(PcbCell(t)))

\* faulty variant: the handle on the ring is held over the switch
pipe_wait_cells_held(t) ==
    <<Enter(PipeCell)>> \o access(NonblockingCell) \o cells_suspend(t) \o <<Exit(PipeCell)>>

\* Pipe::read on an empty ring, Pipe::write on a full one: up to the loop's
\* continue
pipe_wait_cells(t) ==
    <<Enter(PipeCell)>> \o access(NonblockingCell) \o <<Exit(PipeCell)>> \o cells_suspend(t)

\* sys_read and sys_write on a pipe that makes the caller wait once
cells_pipe(t) ==
    cells_current_process(t) \o cells_current_task \o access(PcbCell(t))
    \o pipe_wait_cells(t) \o access(PipeCell)

\* exit_current_and_run_next of a main thread
cells_exit(t) ==
    cells_current_task
    \o <<Enter(TcbCell(t))>> \o access(PcbCell(t)) \o access(PcbCell(t))
    \o <<Exit(TcbCell(t))>>
    \o (IF t = INITPROC THEN <<Do("shutdown")>>
        ELSE access(Pid2ProcessCell)
             \o <<Enter(PcbCell(t))>> \o access(PcbCell(INITPROC))
             \o access(TcbCell(t)) \o <<Exit(PcbCell(t))>>
             \o access(PcbCell(t))
             \o <<Do("exited")>> \o cells_schedule)

\* run_tasks up to fetch_task
cells_run_tasks == <<Enter(ProcessorCell), Enter(ManagerCell), Do("fetch")>>

\* run_tasks after fetch_task returned next
cells_run_next(next) ==
    <<Exit(ManagerCell)>> \o access(TcbCell(next))
    \o <<Exit(ProcessorCell), [op |-> "switch_to", cell |-> TcbCell(next)]>>

\* run_tasks after fetch_task returned None
cells_run_none == <<Exit(ManagerCell), Exit(ProcessorCell)>> \o cells_run_tasks

\* trap_from_kernel on a timer interrupt, and the return from it, where the
\* hardware sets sstatus.sie again
cells_trap_from_kernel == check_timer_cells \o <<Do("sie_on")>>

\* the threads of a set in the order of their numbers
RECURSIVE CellSeq(_)
CellSeq(ts) ==
    IF ts = {} THEN <<>>
    ELSE <<CHOOSE t \in ts : \A u \in ts : t <= u>>
         \o CellSeq(ts \ {CHOOSE t \in ts : \A u \in ts : t <= u})

\* the kernel paths a thread takes from user mode
CellPaths(t) ==
    { cells_syscall(t, cells_suspend(t)),
      cells_syscall(t, cells_nanosleep(t)),
      cells_syscall(t, cells_wait4(t)),
      cells_syscall(t, cells_pipe(t)),
      cells_syscall(t, cells_exit(t)),
      cells_timer(t) }

InitCells ==
    /\ cells = [borrowed |-> {}, nested_level |-> 0, sie_before_masking |-> FALSE,
                sie |-> FALSE]
    /\ cell_sched = [on_cpu |-> IdleLoop,
                     queue |-> [i \in 1..MaxCellThreads |-> i - 1],
                     timers |-> {}, dead |-> {}, state |-> "running"]
    /\ steps = [a \in 0..MaxCellThreads |->
                  IF a = IdleLoop THEN cells_run_tasks ELSE cells_trap_return(a)]
    /\ cell_ev = [op |-> "none", by |-> IdleLoop, cell |-> NoCell, level |-> 0,
                  held |-> {}]

(***************************************************************************)
(* The sleep heap by itself (timer.rs): a BinaryHeap of TimerCondVars, a   *)
(* max-heap under the Ord of TimerCondVar.  Machine words have WordBits    *)
(* bits in these runs; expire_ms and the time are words.                   *)
(***************************************************************************)
WordBits == 4

WordCount == 2 ^ WordBits

\* usize as isize
as_isize(u) == IF u >= WordCount \div 2 THEN u - WordCount ELSE u

\* -(x): the negation of an isize; isize::MIN is its own wrapped negation
neg_isize(x) == IF x = 0 - (WordCount \div 2) THEN x ELSE 0 - x

\* PartialOrd / Ord for TimerCondVar: -(expire_ms as isize) is compared
TimerCondVar_cmp(a, b) ==
    IF neg_isize(as_isize(a.expire_ms)) < neg_isize(as_isize(b.expire_ms)) THEN "Less"
    ELSE IF neg_isize(as_isize(a.expire_ms)) > neg_isize(as_isize(b.expire_ms))
    THEN "Greater" ELSE "Equal"

\* most timers in the heap
MaxTimers == 3

\* most the time reaches
MaxNow == 3

\* threads that sleep
HeapTasks == {0, 1}

\* the values of expire_ms: soon, and one with the top bit set
HeapExpiries == {1, 2, 3, WordCount \div 2 + 1}

\* BinaryHeap::peek: the places of the timers no timer is greater than
Peeks(h) ==
    {i \in 1..Len(h) : \A j \in 1..Len(h) : TimerCondVar_cmp(h[i], h[j]) # "Less"}

\* check_timer at current_ms on the heap h: the runs of its loop, each
\* with the timers handed to wakeup_task, in order, and the heap it leaves
RECURSIVE check_timer_heap(_, _)
check_timer_heap(h, current_ms) ==
    IF h = <<>> THEN {[woken |-> <<>>, heap |-> h]}
    ELSE UNION {IF h[i].expire_ms <= current_ms
                THEN {[woken |-> <<h[i]>> \o r.woken, heap |-> r.heap] :
                         r \in check_timer_heap(RemoveAt(h, i), current_ms)}
                ELSE {[woken |-> <<>>, heap |-> h]} : i \in Peeks(h)}

InitHeap ==
    /\ timer_heap = <<>>
    /\ heap_now = 0
    /\ heap_ev = [op |-> "none"]
(***************************************************************************)
(* Ring-only runs: any sequence of Pipe calls on one ring.  A blocking     *)
(* call that yields leaves the ring as its passes so far left it.          *)
(***************************************************************************)
RingRead ==
    \E len \in 0..MaxLen, nb \in BOOLEAN :
        LET res == Pipe_read(ring, len, 0, nb, FALSE) IN
        /\ ring' = res.ring
        /\ rlog' = [op |-> "read", ret |-> res.ret, bytes |-> res.bytes]
        /\ UNCHANGED <<wstamp, allocVars, kernVars, memVars, sleepVars, tickVars, cellVars, heapVars>>

RingWrite ==
    \E len \in 0..MaxLen, nb \in BOOLEAN :
        LET res == Pipe_write(ring, StreamFrom(wstamp, len), 0, nb) IN
        /\ ring' = res.ring
        /\ wstamp' = StampAfter(wstamp, res.ret)
        /\ rlog' = [op |-> "write", ret |-> res.ret, bytes |-> <<>>]
        /\ UNCHANGED <<allocVars, kernVars, memVars, sleepVars, tickVars, cellVars, heapVars>>

RingReadAt ==
    \E len \in 0..MaxLen :
        LET res == Pipe_read_at(ring, len) IN
        /\ ring' = res.ring
        /\ rlog' = [op |-> "read_at", ret |-> res.ret, bytes |-> res.bytes]
        /\ UNCHANGED <<wstamp, allocVars, kernVars, memVars, sleepVars, tickVars, cellVars, heapVars>>

RingWriteAt ==
    \E len \in 0..MaxLen :
        LET res == Pipe_write_at(ring, StreamFrom(wstamp, len)) IN
        /\ ring' = res.ring
        /\ wstamp' = StampAfter(wstamp, res.ret)
        /\ rlog' = [op |-> "write_at", ret |-> res.ret, bytes |-> <<>>]
        /\ UNCHANGED <<allocVars, kernVars, memVars, sleepVars, tickVars, cellVars, heapVars>>

(***************************************************************************)
(* Allocator-only runs: any sequence of allocations and handle drops on    *)
(* the pid allocator, one process's tid allocator and the kernel-stack     *)
(* allocator.  A handle is dropped once (Drop for PidHandle, TaskUserRes   *)
(* and KernelStack); a failing assertion of dealloc stops the kernel.      *)
(***************************************************************************)
pid_alloc ==
    /\ machine = "running"
    /\ Len(handles.pid) < MaxHandles
    /\ LET got == RecycleAllocator_alloc(allocators.pid) IN
       /\ allocators' = [allocators EXCEPT !.pid = got.alloc]
       /\ handles' = [handles EXCEPT !.pid = Append(@, got.id)]
    /\ UNCHANGED <<ringVars, kernVars, memVars, sleepVars, tickVars, cellVars, heapVars>>

PidHandle_drop ==
    /\ machine = "running"
    /\ \E i \in 1..Len(handles.pid) :
        /\ handles' = [handles EXCEPT !.pid = RemoveAt(@, i)]
        /\ IF RecycleAllocator_dealloc_ok(allocators.pid, handles.pid[i])
           THEN /\ allocators' = [allocators EXCEPT
                       !.pid = RecycleAllocator_dealloc(@, handles.pid[i])]
                /\ UNCHANGED machine
           ELSE /\ machine' = "panic"
                /\ UNCHANGED allocators
    /\ UNCHANGED <<ringVars, procVars, memVars, sleepVars, tickVars, cellVars, heapVars>>

TaskUserRes_new ==
    /\ machine = "running"
    /\ Len(handles.tid) < MaxHandles
    /\ LET got == RecycleAllocator_alloc(allocators.tid) IN
       /\ allocators' = [allocators EXCEPT !.tid = got.alloc]
       /\ handles' = [handles EXCEPT !.tid = Append(@, got.id)]
    /\ UNCHANGED <<ringVars, kernVars, memVars, sleepVars, tickVars, cellVars, heapVars>>

TaskUserRes_drop ==
    /\ machine = "running"
    /\ \E i \in 1..Len(handles.tid) :
        /\ handles' = [handles EXCEPT !.tid = RemoveAt(@, i)]
        /\ IF RecycleAllocator_dealloc_ok(allocators.tid, handles.tid[i])
           THEN /\ allocators' = [allocators EXCEPT
                       !.tid = RecycleAllocator_dealloc(@, handles.tid[i])]
                /\ UNCHANGED machine
           ELSE /\ machine' = "panic"
                /\ UNCHANGED allocators
    /\ UNCHANGED <<ringVars, procVars, memVars, sleepVars, tickVars, cellVars, heapVars>>

kstack_alloc ==
    /\ machine = "running"
    /\ Len(handles.kstack) < MaxHandles
    /\ LET got == KStackAllocator_alloc(allocators.kstack) IN
       /\ allocators' = [allocators EXCEPT !.kstack = got.alloc]
       /\ handles' = [handles EXCEPT !.kstack = Append(@, got.id)]
    /\ UNCHANGED <<ringVars, kernVars, memVars, sleepVars, tickVars, cellVars, heapVars>>

KernelStack_drop ==
    /\ machine = "running"
    /\ \E i \in 1..Len(handles.kstack) :
        /\ handles' = [handles EXCEPT !.kstack = RemoveAt(@, i)]
        /\ IF KStackAllocator_dealloc_ok(allocators.kstack, handles.kstack[i])
           THEN /\ allocators' = [allocators EXCEPT
                       !.kstack = KStackAllocator_dealloc(@, handles.kstack[i])]
                /\ UNCHANGED machine
           ELSE /\ machine' = "panic"
                /\ UNCHANGED allocators
    /\ UNCHANGED <<ringVars, procVars, memVars, sleepVars, tickVars, cellVars, heapVars>>

(***************************************************************************)
(* The initial state: INITPROC has been created by ProcessControlBlock::new *)
(* and its main thread is in the run queue; run_tasks has nothing running.  *)
(***************************************************************************)
\* ProcessControlBlock::new for the init process: the kernel state after it
ProcessControlBlock_new ==
    LET pid_handle == RecycleAllocator_alloc(RecycleAllocator_new)
        tid == RecycleAllocator_alloc(RecycleAllocator_new)
        kstack == KStackAllocator_alloc(RecycleAllocator_new)
        init_pcb == [NoPcb EXCEPT !.live = TRUE, !.pid = pid_handle.id,
                                  !.fd_table = <<"stdin", "stdout", "stdout">>,
                                  !.task_res_allocator = tid.alloc,
                                  !.tgid = pid_handle.id,
                                  !.tasks = tasks_push(<<>>, INITPROC)]
        init_tcb == [NoTcb EXCEPT !.live = TRUE, !.kstack = kstack.id,
                                  !.res = <<tid.id>>,
                                  !.trap_cx = app_init_context(
                                                  0, kernel_stack_top(kstack.id))]
    IN  [pcb |-> [s \in Procs |-> IF s = INITPROC THEN init_pcb ELSE NoPcb],
         tcb |-> [s \in Procs |-> IF s = INITPROC THEN init_tcb ELSE NoTcb],
         ready_queue |-> <<INITPROC>>,
         pid2process |-> {INITPROC},
         PID_ALLOCATOR |-> pid_handle.alloc,
         KSTACK_ALLOCATOR |-> kstack.alloc]

\* accepted: the bytes Pipe::write took from user buffers, in the order it
\* took them; delivered: the bytes Pipe::read stored to user buffers
NoPipe ==
    [made |-> FALSE, written |-> 0, taken |-> 0, writes |-> 0, wrote |-> {},
     accepted |-> <<>>, delivered |-> <<>>]

InitKernel ==
    /\ machine = "running"
    /\ pcb = ProcessControlBlock_new.pcb
    /\ tcb = ProcessControlBlock_new.tcb
    /\ ready_queue = ProcessControlBlock_new.ready_queue
    /\ pid2process = ProcessControlBlock_new.pid2process
    /\ PID_ALLOCATOR = ProcessControlBlock_new.PID_ALLOCATOR
    /\ KSTACK_ALLOCATOR = ProcessControlBlock_new.KSTACK_ALLOCATOR
    /\ current = <<>>
    /\ cpu = "idle"
    /\ TIMERS = <<>>
    /\ pipe = NoPipe
    /\ ev = NoEvent

InitRing ==
    /\ ring = PipeRingBuffer_new
    /\ wstamp = 1
    /\ rlog = [op |-> "new", ret |-> 0, bytes |-> <<>>]

InitAlloc ==
    /\ allocators = [pid |-> RecycleAllocator_new, tid |-> RecycleAllocator_new,
                     kstack |-> RecycleAllocator_new]
    /\ handles = [pid |-> <<>>, tid |-> <<>>, kstack |-> <<>>]

\* no time slice is counted until the count is started
InitTick == slices = <<>>

Init ==
    InitRing /\ InitAlloc /\ InitKernel /\ InitMem /\ InitSleep /\ InitTick /\ InitCells
    /\ InitHeap

NextRing == RingRead \/ RingWrite \/ RingReadAt \/ RingWriteAt

SpecRing == Init /\ [][NextRing]_vars

NextAlloc ==
    \/ pid_alloc \/ PidHandle_drop
    \/ TaskUserRes_new \/ TaskUserRes_drop
    \/ kstack_alloc \/ KernelStack_drop

SpecAlloc == Init /\ [][NextAlloc]_vars

(***************************************************************************)
(* The steps of the kernel.  A step is the idle loop dispatching a thread, *)
(* a trap taken in user mode and handled up to the return to user mode or  *)
(* to the next switch to the idle loop, or a thread resuming in the kernel *)
(* where it was switched out.                                              *)
(***************************************************************************)
\* run_tasks: the front of the run queue becomes Running and current; the
\* dispatch is a time slice of the thread when time slices are counted
run_tasks ==
    /\ machine = "running"
    /\ cpu = "idle"
    /\ ready_queue # <<>>
    /\ LET f == fetch_task(ready_queue) IN
       /\ f.task \in DOMAIN slices => slices[f.task] < MaxSlices
       /\ Commit([K EXCEPT !.ready_queue = f.rest,
                           !.tcb[f.task].task_status = "Running",
                           !.current = <<f.task>>,
                           !.cpu = tcb[f.task].task_cx])
       /\ ev' = NoEvent
       /\ slices' = IF f.task \in DOMAIN slices
                    THEN [slices EXCEPT ![f.task] = @ + 1] ELSE slices
    /\ UNCHANGED <<rlog, allocVars, memVars, sleepVars, cellVars, heapVars>>

\* a new thread starts at trap_return
ResumeTrapReturn ==
    /\ \E t \in Procs :
        /\ ResumesAt(t, "trap_return")
        /\ Commit(trap_return(K))
        /\ ev' = NoEvent
    /\ UNCHANGED <<rlog, allocVars, memVars, sleepVars, tickVars, cellVars, heapVars>>

\* the timer interrupt in user mode
TimerIrq ==
    /\ \E t \in Procs, regs \in TrapRegs, ord \in PopOrders(TIMERS) :
        /\ InUser(t)
        /\ Commit(suspend_current_and_run_next(
                      check_timer(trap_enter(K, t, regs), ord), "timer"))
        /\ ev' = NoEvent
    /\ UNCHANGED <<rlog, allocVars, memVars, sleepVars, tickVars, cellVars, heapVars>>

ResumeTimer ==
    /\ \E t \in Procs :
        /\ ResumesAt(t, "timer")
        /\ Commit(trap_handler_tail(K))
        /\ ev' = NoEvent
    /\ UNCHANGED <<rlog, allocVars, memVars, sleepVars, tickVars, cellVars, heapVars>>

\* the timer interrupt in kernel mode (trap_from_kernel): no scheduling
KernelTimerIrq ==
    /\ machine = "running"
    /\ cpu # "user"
    /\ DueTimers(TIMERS) # {}
    /\ \E ord \in PopOrders(TIMERS) :
        Commit(check_timer(K, ord))
    /\ ev' = NoEvent
    /\ UNCHANGED <<rlog, allocVars, memVars, sleepVars, tickVars, cellVars, heapVars>>

\* a fault or an illegal instruction in user mode
UserFault ==
    /\ \E t \in Procs, regs \in TrapRegs, cause \in FaultCauses :
        /\ InUser(t)
        /\ Commit(trap_handler_tail(
                      current_add_signal(trap_enter(K, t, regs), fault_signal(cause))))
        /\ ev' = Event("fault", t, cause, <<>>, <<>>)
    /\ UNCHANGED <<rlog, allocVars, memVars, sleepVars, tickVars, cellVars, heapVars>>

SysYield ==
    /\ \E t \in Procs, regs \in TrapRegs :
        /\ InUser(t)
        /\ Commit(suspend_current_and_run_next(
                      trap_enter_syscall(K, t, regs, 0), "yield"))
        /\ ev' = NoEvent
    /\ UNCHANGED <<rlog, allocVars, memVars, sleepVars, tickVars, cellVars, heapVars>>

ResumeYield ==
    /\ \E t \in Procs :
        /\ ResumesAt(t, "yield")
        /\ Commit(syscall_return(K, 0))
        /\ ev' = NoEvent
    /\ UNCHANGED <<rlog, allocVars, memVars, sleepVars, tickVars, cellVars, heapVars>>

SysExit(codes) ==
    /\ \E t \in Procs, regs \in TrapRegs, exit_code \in codes :
        /\ InUser(t)
        /\ LET k0 == trap_enter_syscall(K, t, regs, exit_code)
               k1 == [k0 EXCEPT !.tcb[t].frame = [call |-> "exit", code |-> exit_code]]
           IN  Commit(exit_current_and_run_next(k1, sys_exit_code(exit_code)))
        /\ ev' = Event("exit", t, [exit_code |-> exit_code], <<>>, <<>>)
    /\ UNCHANGED <<rlog, allocVars, memVars, sleepVars, tickVars, cellVars, heapVars>>

\* sys_clone while fewer than procs processes exist
SysClone(procs) ==
    /\ \E t \in Procs, regs \in UserRegs, flags \in CloneFlagWords :
        /\ InUser(t)
        /\ Cardinality(Procs \ FreeSlots(K)) < procs
        /\ LET k0 == trap_enter_syscall(K, t, regs, flags)
               r == sys_clone(k0, t, flags)
               k1 == [r.k EXCEPT !.tcb[r.child].born = <<regs>>]
           IN  /\ Commit(syscall_return(k1, r.ret))
               /\ ev' = Event("clone", t, [flags |-> flags], <<r.ret>>, <<r.child>>)
    /\ UNCHANGED <<rlog, allocVars, memVars, sleepVars, tickVars, cellVars, heapVars>>

SysWait4 ==
    /\ \E t \in Procs, regs \in TrapRegs, a \in WaitCalls :
        /\ InUser(t)
        /\ LET k0 == trap_enter_syscall(K, t, regs, a.pid)
               r == IF WaitOption_from_bits_ok(a.option)
                    THEN sys_wait4(k0, t, a)
                    ELSE [k |-> panic(k0), ret |-> <<>>, out |-> <<>>]
           IN  /\ Commit(r.k)
               /\ ev' = Event("wait4", t, a, r.ret, r.out)
    /\ UNCHANGED <<rlog, allocVars, memVars, sleepVars, tickVars, cellVars, heapVars>>

\* a thread suspended in the loop of sys_wait4 runs again
ResumeWait4 ==
    /\ \E t \in Procs :
        /\ ResumesAt(t, "wait4")
        /\ LET a == [pid |-> tcb[t].frame.pid, status |-> tcb[t].frame.status,
                     option |-> tcb[t].frame.option]
               r == sys_wait4([K EXCEPT !.tcb[t].frame = NoFrame], t, a)
           IN  /\ Commit(r.k)
               /\ ev' = Event("wait4", t, a, r.ret, r.out)
    /\ UNCHANGED <<rlog, allocVars, memVars, sleepVars, tickVars, cellVars, heapVars>>

SysNanosleep ==
    /\ \E t \in Procs, regs \in TrapRegs, req \in SleepReqs :
        /\ InUser(t)
        /\ LET k0 == trap_enter_syscall(K, t, regs, 0)
               k1 == [add_timer(k0, req, t) EXCEPT
                         !.tcb[t].frame = [call |-> "nanosleep", end |-> req]]
           IN  Commit(block_current_and_run_next(k1, "nanosleep"))
        /\ ev' = NoEvent
    /\ UNCHANGED <<rlog, allocVars, memVars, sleepVars, tickVars, cellVars, heapVars>>

\* sys_nanosleep after block_current_and_run_next returned.  A thread that
\* is dispatched after it has left sys_nanosleep resumes on a stack that was
\* reused since; this is taken as a stop of the kernel.
ResumeNanosleep ==
    /\ \E t \in Procs :
        /\ ResumesAt(t, "nanosleep")
        /\ LET k0 == [K EXCEPT !.tcb[t].frame = NoFrame] IN
           Commit(IF tcb[t].frame.call # "nanosleep" THEN panic(k0)
                  ELSE IF pcb[t].signals = {}
                  THEN IF tcb[t].frame.end = 0
                       THEN syscall_return(k0, 0) ELSE panic(k0)
                  ELSE syscall_return(k0, 0 - 1))
        /\ ev' = NoEvent
    /\ UNCHANGED <<rlog, allocVars, memVars, sleepVars, tickVars, cellVars, heapVars>>

Next ==
    \/ run_tasks
    \/ ResumeTrapReturn
    \/ TimerIrq
    \/ ResumeTimer
    \/ KernelTimerIrq
    \/ UserFault
    \/ SysYield
    \/ ResumeYield
    \/ SysExit(ExitCodes)
    \/ SysClone(MaxProcs)
    \/ SysWait4
    \/ ResumeWait4
    \/ SysNanosleep
    \/ ResumeNanosleep

Spec == Init /\ [][Next]_vars

(***************************************************************************)
(* The calls on file descriptors and the pipe.                             *)
(***************************************************************************)
SysPipe2 ==
    /\ \E t \in Procs, regs \in TrapRegs :
        /\ InUser(t)
        /\ ~pipe.made
        /\ LET r == sys_pipe2(trap_enter_syscall(K, t, regs, 0), t)
           IN  Commit(syscall_return(r.k, r.ret))
        /\ ev' = NoEvent
    /\ UNCHANGED <<rlog, allocVars, memVars, sleepVars, tickVars, cellVars, heapVars>>

SysClose ==
    /\ \E t \in Procs, regs \in TrapRegs, fd \in PipeFds :
        /\ InUser(t)
        /\ LET r == sys_close(trap_enter_syscall(K, t, regs, fd), t, fd)
           IN  Commit(syscall_return(r.k, r.ret))
        /\ ev' = NoEvent
    /\ UNCHANGED <<rlog, allocVars, memVars, sleepVars, tickVars, cellVars, heapVars>>

SysRead ==
    /\ \E t \in Procs, regs \in TrapRegs, fd \in PipeFds, len \in ReadLens :
        /\ InUser(t)
        /\ LET r == sys_read(trap_enter_syscall(K, t, regs, fd), t, fd, len)
           IN  /\ Commit(r.k)
               /\ ev' = Event("read", t, [fd |-> fd, len |-> len, already |-> 0],
                              r.ret, r.out)
    /\ UNCHANGED <<rlog, allocVars, memVars, sleepVars, tickVars, cellVars, heapVars>>

\* a thread switched out in Pipe::read runs again
ResumeRead ==
    /\ \E t \in Procs :
        /\ ResumesAt(t, "read")
        /\ LET f == tcb[t].frame
               r == Pipe_read_pass(K, t, f.fd, f.want, f.already, f.bytes)
           IN  /\ Commit(r.k)
               /\ ev' = Event("read", t,
                              [fd |-> f.fd, len |-> f.want, already |-> f.already],
                              r.ret, r.out)
    /\ UNCHANGED <<rlog, allocVars, memVars, sleepVars, tickVars, cellVars, heapVars>>

SysWrite ==
    /\ \E t \in Procs, regs \in TrapRegs, fd \in PipeFds, len \in WriteLens :
        /\ InUser(t)
        /\ pipe.writes < MaxWrites
        /\ LET r == sys_write(trap_enter_syscall(K, t, regs, fd), t, fd, len)
           IN  /\ Commit(r.k)
               /\ ev' = Event("write", t, [fd |-> fd, len |-> len], r.ret, <<>>)
    /\ UNCHANGED <<rlog, allocVars, memVars, sleepVars, tickVars, cellVars, heapVars>>

\* a thread switched out in Pipe::write runs again
ResumeWrite ==
    /\ \E t \in Procs :
        /\ ResumesAt(t, "write")
        /\ LET f == tcb[t].frame
               r == Pipe_write_pass(K, t, f.fd, f.data, f.already)
           IN  /\ Commit(r.k)
               /\ ev' = Event("write", t, [fd |-> f.fd, len |-> Len(f.data)],
                              r.ret, <<>>)
    /\ UNCHANGED <<rlog, allocVars, memVars, sleepVars, tickVars, cellVars, heapVars>>

NextPipe ==
    \/ run_tasks
    \/ ResumeTrapReturn
    \/ TimerIrq
    \/ ResumeTimer
    \/ SysPipe2
    \/ SysClone(MaxPipeProcs)
    \/ SysClose
    \/ SysRead
    \/ ResumeRead
    \/ SysWrite
    \/ ResumeWrite
    \/ SysExit(PipeExitCodes)

SpecPipe == Init /\ [][NextPipe]_vars

(***************************************************************************)
(* Processes and their address spaces.  A step is one trap taken by a      *)
(* process in user mode, handled up to the return to user mode or to the   *)
(* switch away from the process: none of these handlers is switched out.   *)
(***************************************************************************)
\* the state a step leaves: u is the table of processes, x the context
MemCommit(u, x) ==
    /\ ~x.oom
    /\ uspace' = u
    /\ frames' = x.frames
    /\ machine' = IF x.ok THEN machine ELSE "panic"

\* the trap context after a system call returned ret
MemSyscallReturn(cx, ret) == [cx EXCEPT !.sepc = MemPc + 4, !.a0 = ret]

MemRunning(p) == machine = "running" /\ uspace[p].state = "live"

\* exit_current_and_run_next of the main thread of p on the table u
mem_exit(u, x, p) ==
    LET d == dealloc_user_res(x, 0) IN
    IF p = INITPROC \/ ~d.ok
    THEN [u |-> [u EXCEPT ![p].ms = d.ms], x |-> d, shutdown |-> d.ok]
    ELSE LET r == recycle_data_pages(d) IN
         [u |-> [q \in MemProcs |->
                    IF q = p THEN [u[q] EXCEPT !.state = "zombie", !.ms = r.ms]
                    ELSE IF u[q].parent = <<p>> THEN [u[q] EXCEPT !.parent = <<INITPROC>>]
                    ELSE u[q]],
          x |-> r, shutdown |-> FALSE]

MemExitCommit(e) ==
    /\ ~e.x.oom
    /\ uspace' = e.u
    /\ frames' = e.x.frames
    /\ machine' = IF ~e.x.ok THEN "panic" ELSE IF e.shutdown THEN "shutdown" ELSE machine

SysMmap(ps, calls) ==
    /\ \E p \in ps, call \in calls, prot \in MmapProts :
        /\ MemRunning(p)
        /\ VirtAddr_floor(uspace[p].ms.brk) <= MaxVpn
        /\ Len(uspace[p].ms.areas) < MaxAreas
        /\ LET r == mmap(MemCtx(p), call[1], call[2], prot) IN
           /\ MemCommit([uspace EXCEPT ![p].ms = r.x.ms,
                                       ![p].trap_cx = MemSyscallReturn(@, r.ret)], r.x)
           /\ mev' = [op |-> "mmap", p |-> p, start |-> call[1], len |-> call[2],
                      brk0 |-> uspace[p].ms.brk, ret |-> r.ret, range |-> r.range]
    /\ UNCHANGED <<ringVars, allocVars, procVars, sleepVars, tickVars, cellVars, heapVars>>

SysMunmap(ps, calls) ==
    /\ \E p \in ps, call \in calls :
        /\ MemRunning(p)
        /\ LET r == munmap(MemCtx(p), call[1], call[2]) IN
           /\ MemCommit([uspace EXCEPT ![p].ms = r.x.ms,
                                       ![p].trap_cx = MemSyscallReturn(@, r.ret)], r.x)
           /\ mev' = [op |-> "munmap", p |-> p, start |-> call[1], len |-> call[2],
                      ret |-> r.ret, range |-> munmap_range(call[1], call[2])]
    /\ UNCHANGED <<ringVars, allocVars, procVars, sleepVars, tickVars, cellVars, heapVars>>

SysBrk(ps, addrs) ==
    /\ \E p \in ps, addr \in addrs :
        /\ MemRunning(p)
        /\ Len(uspace[p].ms.areas) < MaxAreas
        /\ LET r == sys_brk(MemCtx(p), addr) IN
           /\ MemCommit([uspace EXCEPT ![p].ms = r.x.ms,
                                       ![p].trap_cx = MemSyscallReturn(@, r.ret)], r.x)
           /\ mev' = [op |-> "brk", p |-> p, addr |-> addr, ret |-> r.ret]
    /\ UNCHANGED <<ringVars, allocVars, procVars, sleepVars, tickVars, cellVars, heapVars>>

\* a store of user code: done by the hardware when the page is mapped
\* writable for user mode, else a page fault: SIGSEGV, and the process exits
UserStore(ps, addrs) ==
    /\ \E p \in ps, va \in addrs, b \in StoreBytesOf :
        /\ MemRunning(p)
        /\ LET pt == uspace[p].ms.page_table
               vpn == VirtAddr_floor(va)
           IN  IF vpn \in DOMAIN pt /\ {"W", "U"} \subseteq pt[vpn].flags
               THEN /\ MemCommit(uspace, StoreByte(MemCtx(p), va, b))
                    /\ mev' = [op |-> "store", p |-> p, va |-> va, b |-> b, fault |-> FALSE]
               ELSE /\ MemExitCommit(mem_exit(uspace, MemCtx(p), p))
                    /\ mev' = [op |-> "store", p |-> p, va |-> va, b |-> b, fault |-> TRUE]
    /\ UNCHANGED <<ringVars, allocVars, procVars, sleepVars, tickVars, cellVars, heapVars>>

MemExit ==
    /\ \E p \in MemProcs, code \in MemExitCodes :
        /\ MemRunning(p)
        /\ MemExitCommit(mem_exit(uspace, MemCtx(p), p))
        /\ mev' = [op |-> "exit", p |-> p]
    /\ UNCHANGED <<ringVars, allocVars, procVars, sleepVars, tickVars, cellVars, heapVars>>

\* sys_clone: the child gets a copy of the address space
MemClone ==
    /\ \E p \in MemProcs, c \in MemProcs :
        /\ MemRunning(p)
        /\ uspace[c].state = "none"
        /\ \A d \in MemProcs : uspace[d].state = "none" => c <= d
        /\ LET x == from_existed_user(MemCtx(p), uspace[p].ms)
               ms == [x.ms EXCEPT !.heap_start = uspace[p].ms.heap_start,
                                  !.brk = uspace[p].ms.brk]
               cx == MemSyscallReturn(uspace[p].trap_cx, 0)
           IN  /\ MemCommit([uspace EXCEPT
                                ![c] = [state |-> "live", ms |-> ms, trap_cx |-> cx,
                                        parent |-> <<p>>,
                                        fd_table |-> uspace[p].fd_table],
                                ![p].trap_cx = MemSyscallReturn(@, c)],
                            [x EXCEPT !.ms = uspace[p].ms])
               /\ mev' = [op |-> "clone", p |-> p, child |-> c]
    /\ UNCHANGED <<ringVars, allocVars, procVars, sleepVars, tickVars, cellVars, heapVars>>

\* sys_wait4 reaping the zombie child c: its PCB and MemorySet are dropped
MemReap ==
    /\ \E p \in MemProcs, c \in MemProcs :
        /\ MemRunning(p)
        /\ uspace[c].state = "zombie" /\ uspace[c].parent = <<p>>
        /\ MemCommit([uspace EXCEPT ![c] = NoUspace,
                                    ![p].trap_cx = MemSyscallReturn(@, c)], MemCtx(p))
        /\ mev' = [op |-> "wait4", p |-> p, child |-> c]
    /\ UNCHANGED <<ringVars, allocVars, procVars, sleepVars, tickVars, cellVars, heapVars>>

\* sys_execve and the rest of the trap handler
SysExecve(ps) ==
    /\ \E p \in ps, path \in ExecPaths, args \in ArgVectors :
        /\ MemRunning(p)
        /\ IF path \in DOMAIN ElfFiles
           THEN LET e == exec(MemCtx(p), ElfFiles[path], args) IN
                /\ MemCommit([uspace EXCEPT ![p].ms = e.x.ms,
                                            ![p].trap_cx = [e.trap_cx EXCEPT !.a0 = 0]], e.x)
                /\ mev' = [op |-> "execve", p |-> p, path |-> path, args |-> args, ret |-> 0]
           ELSE /\ MemCommit([uspace EXCEPT ![p].trap_cx = MemSyscallReturn(@, 0 - 1)],
                             MemCtx(p))
                /\ mev' = [op |-> "execve", p |-> p, path |-> path, args |-> args,
                           ret |-> 0 - 1]
    /\ UNCHANGED <<ringVars, allocVars, procVars, sleepVars, tickVars, cellVars, heapVars>>

\* one address space: the init process
NextMem ==
    \/ SysMmap({INITPROC}, MmapCalls)
    \/ SysMunmap({INITPROC}, MunmapCalls)
    \/ SysBrk({INITPROC}, BrkAddrs)
    \/ UserStore({INITPROC}, StoreAddrs)

SpecMem == Init /\ [][NextMem]_vars

\* processes: clone, exit and wait4 on address spaces that grow
NextFork ==
    \/ SysBrk(MemProcs, ForkBrkAddrs)
    \/ UserStore(MemProcs, ForkStoreAddrs)
    \/ MemExit
    \/ MemClone
    \/ MemReap

SpecFork == Init /\ [][NextFork]_vars

\* execve by the init process
NextExec ==
    \/ SysExecve({INITPROC})
    \/ SysBrk({INITPROC}, ForkBrkAddrs)
    \/ UserStore({INITPROC}, StoreAddrs)

SpecExec == Init /\ [][NextExec]_vars

(***************************************************************************)
(* One thread that sleeps, the clock and the timer interrupt.              *)
(***************************************************************************)
\* time passes
ClockTick ==
    /\ machine = "running"
    /\ clock + ClockStep <= MaxClockSteps * ClockStep
    /\ clock' = clock + ClockStep
    /\ UNCHANGED <<sleeper, ringVars, allocVars, kernVars, memVars, tickVars, cellVars, heapVars>>

\* sys_nanosleep up to the switch away from the thread
SleepCall ==
    /\ machine = "running"
    /\ sleeper.st = "user"
    /\ \E nanos \in SleepNanos :
        LET b == sys_nanosleep_block(clock, [tv_sec |-> 0, tv_nsec |-> nanos]) IN
        sleeper' = [sleeper EXCEPT !.st = "blocked", !.timer = <<b.expire_ms>>,
                                   !.end = b.end, !.req = nanos, !.called = clock,
                                   !.rem = RemBefore]
    /\ UNCHANGED <<clock, ringVars, allocVars, kernVars, memVars, tickVars, cellVars, heapVars>>

\* the timer interrupt while the thread is blocked: check_timer wakes it
\* when its timer is due
SleepTimerIrq ==
    /\ machine = "running"
    /\ sleeper.st = "blocked"
    /\ sleeper.timer[1] <= get_time_ms(clock)
    /\ sleeper' = [sleeper EXCEPT !.st = "ready", !.timer = <<>>]
    /\ UNCHANGED <<clock, ringVars, allocVars, kernVars, memVars, tickVars, cellVars, heapVars>>

\* the thread is dispatched: sys_nanosleep from block_current_and_run_next on
SleepResume ==
    /\ machine = "running"
    /\ sleeper.st = "ready"
    /\ LET r == sys_nanosleep_resume(clock, sleeper.end, sleeper.signals, sleeper.rem) IN
       /\ sleeper' = [sleeper EXCEPT !.st = "user", !.resumed = clock,
                                     !.ret = r.ret, !.rem = r.rem]
       /\ machine' = IF r.ok THEN machine ELSE "panic"
    /\ UNCHANGED <<clock, ringVars, allocVars, procVars, memVars, tickVars, cellVars, heapVars>>

NextSleep == ClockTick \/ SleepCall \/ SleepTimerIrq \/ SleepResume

SpecSleep == Init /\ [][NextSleep]_vars
(***************************************************************************)
(* Calls on descriptors and user buffers by the init process.              *)
(***************************************************************************)
\* the calls of write and read: fd, buf and len
StdioWriteCalls ==
    {<<1, PAGE_SIZE, 1>>, <<1, 3 * PAGE_SIZE + 4095, 2>>, <<1, 3 * PAGE_SIZE, 1>>,
     <<1, PtesPerTable * PAGE_SIZE, 1>>, <<0, PAGE_SIZE, 1>>, <<7, PAGE_SIZE, 1>>}

StdioReadCalls ==
    {<<0, 3 * PAGE_SIZE + 8, 1>>, <<0, 4 * PAGE_SIZE, 1>>, <<0, 3 * PAGE_SIZE, 2>>,
     <<0, PtesPerTable * PAGE_SIZE, 1>>, <<1, 3 * PAGE_SIZE, 1>>, <<3, 3 * PAGE_SIZE, 1>>}

\* characters the console delivers
ConsoleChars == {65}

FileMmapCalls == {<<0, PAGE_SIZE>>, <<4 * PAGE_SIZE, PAGE_SIZE>>}

FileMunmapCalls == {<<3 * PAGE_SIZE, PAGE_SIZE>>, <<4 * PAGE_SIZE, PAGE_SIZE>>}

\* the end of a call on a file: the kernel stops, or the call returns
FileCommit(p, o, ret, fr) ==
    /\ uspace' = IF o = "panic" THEN uspace
                 ELSE [uspace EXCEPT ![p].trap_cx = MemSyscallReturn(@, ret)]
    /\ frames' = IF o = "panic" THEN frames ELSE fr
    /\ machine' = IF o = "panic" THEN "panic" ELSE machine

SysWriteStdio(ps, calls) ==
    /\ \E p \in ps, c \in calls :
        /\ MemRunning(p)
        /\ LET r == sys_write_stdio(uspace[p].ms.page_table, uspace[p].fd_table, frames,
                              c[1], c[2], c[3]) IN
           \E o \in r.outcomes :
            /\ FileCommit(p, o, r.ret, frames)
            /\ mev' = [op |-> "write", p |-> p, fd |-> c[1], buf |-> c[2], len |-> c[3],
                       outcome |-> o, ret |-> r.ret, v |-> r.v]
    /\ UNCHANGED <<ringVars, allocVars, procVars, sleepVars, tickVars, cellVars, heapVars>>

\* the frames after the byte ch went to the start of the slice s
SliceStore(fr, s, ch) ==
    IF s.ppn \in DOMAIN fr THEN [fr EXCEPT ![s.ppn] = With(@, s.from, ch)] ELSE fr

SysReadStdio(ps, calls) ==
    /\ \E p \in ps, c \in calls, ch \in ConsoleChars :
        /\ MemRunning(p)
        /\ LET r == sys_read_stdio(uspace[p].ms.page_table, uspace[p].fd_table, frames,
                             c[1], c[2], c[3]) IN
           \E o \in r.outcomes :
            /\ FileCommit(p, o, r.ret,
                          IF r.v = <<>> THEN frames ELSE SliceStore(frames, r.v[1], ch))
            /\ mev' = [op |-> "read", p |-> p, fd |-> c[1], buf |-> c[2], len |-> c[3],
                       outcome |-> o, ret |-> r.ret, v |-> r.v]
    /\ UNCHANGED <<ringVars, allocVars, procVars, sleepVars, tickVars, cellVars, heapVars>>

\* descriptors the calls on the table are made with
FdArgs == {0, 1, 3, 7}

Dup3NewFds == {1, 3}

Dup3Flags == {0, 1}

\* the end of a call on the descriptor table
FdCommit(p, op, fd, r) ==
    \E o \in r.outcomes :
        /\ uspace' = IF o = "panic" THEN uspace
                     ELSE [uspace EXCEPT ![p].trap_cx = MemSyscallReturn(@, r.ret),
                                         ![p].fd_table = r.fd_table]
        /\ frames' = frames
        /\ machine' = IF o = "panic" THEN "panic" ELSE machine
        /\ mev' = [op |-> op, p |-> p, fd |-> fd, outcome |-> o, ret |-> r.ret]

SysCloseFd(ps) ==
    /\ \E p \in ps, fd \in FdArgs :
        /\ MemRunning(p)
        /\ FdCommit(p, "close", fd, sys_close_fd(uspace[p].fd_table, fd))
    /\ UNCHANGED <<ringVars, allocVars, procVars, sleepVars, tickVars, cellVars, heapVars>>

SysDup(ps) ==
    /\ \E p \in ps, fd \in FdArgs :
        /\ MemRunning(p)
        /\ Len(uspace[p].fd_table) < MaxFds
        /\ FdCommit(p, "dup", fd, sys_dup(uspace[p].fd_table, fd))
    /\ UNCHANGED <<ringVars, allocVars, procVars, sleepVars, tickVars, cellVars, heapVars>>

SysDup3(ps) ==
    /\ \E p \in ps, old_fd \in FdArgs, new_fd \in Dup3NewFds, flags \in Dup3Flags :
        /\ MemRunning(p)
        /\ Len(uspace[p].fd_table) < MaxFds
        /\ FdCommit(p, "dup3", old_fd, sys_dup3(uspace[p].fd_table, old_fd, new_fd, flags))
    /\ UNCHANGED <<ringVars, allocVars, procVars, sleepVars, tickVars, cellVars, heapVars>>

SysGetdents64(ps) ==
    /\ \E p \in ps, fd \in FdArgs :
        /\ MemRunning(p)
        /\ FdCommit(p, "getdents64", fd, sys_getdents64(uspace[p].fd_table, fd, 0))
    /\ UNCHANGED <<ringVars, allocVars, procVars, sleepVars, tickVars, cellVars, heapVars>>

SysFstat(ps) ==
    /\ \E p \in ps, fd \in FdArgs :
        /\ MemRunning(p)
        /\ FdCommit(p, "fstat", fd, sys_fstat(uspace[p].fd_table, fd))
    /\ UNCHANGED <<ringVars, allocVars, procVars, sleepVars, tickVars, cellVars, heapVars>>

NextFile ==
    \/ SysMmap({INITPROC}, FileMmapCalls)
    \/ SysMunmap({INITPROC}, FileMunmapCalls)
    \/ SysWriteStdio({INITPROC}, StdioWriteCalls)
    \/ SysReadStdio({INITPROC}, StdioReadCalls)
    \/ SysCloseFd({INITPROC})
    \/ SysDup({INITPROC})
    \/ SysDup3({INITPROC})
    \/ SysGetdents64({INITPROC})
    \/ SysFstat({INITPROC})

SpecFile == Init /\ [][NextFile]_vars
(***************************************************************************)
(* Time slices: threads that only run in user mode until the timer         *)
(* interrupt switches them out.  A dispatch by run_tasks is a time slice.  *)
(***************************************************************************)
LiveThreads == {t \in Procs : tcb[t].live}

\* the count of time slices starts, at any moment at which the threads exist
StartCount ==
    /\ machine = "running"
    /\ slices = <<>>
    /\ Cardinality(LiveThreads) = TickThreads
    /\ slices' = [t \in LiveThreads |-> 0]
    /\ UNCHANGED <<ringVars, allocVars, kernVars, memVars, sleepVars, cellVars, heapVars>>

\* the init process clones the other threads and makes no other call
NextTick ==
    \/ run_tasks
    \/ ResumeTrapReturn
    \/ TimerIrq
    \/ ResumeTimer
    \/ SysClone(TickThreads)
    \/ StartCount

SpecTick == Init /\ [][NextTick]_vars
(***************************************************************************)
(* Sleep, kill and exit (syscall/process.rs, timer.rs).  System calls run  *)
(* with interrupts enabled, so sys_nanosleep is two steps here: up to      *)
(* add_timer, and from block_current_and_run_next on; a timer interrupt of *)
(* kernel mode may come between them.                                      *)
(***************************************************************************)
\* pid arguments of kill: the init process, its first child, no process
KillPids == {0, 1, 5}

\* SIGKILL
KillSigs == {9}

\* SignalFlags::from_signum for the signal numbers of KillSigs
from_signum(sig) == IF sig = 9 THEN <<"SIGKILL">> ELSE <<>>

\* find_task_by_pid: the main thread of the registered process with this pid
find_task_by_pid(k, pid) ==
    IF \E s \in k.pid2process : k.pcb[s].live /\ k.pcb[s].pid = pid /\ k.tcb[s].live
    THEN <<CHOOSE s \in k.pid2process : k.pcb[s].live /\ k.pcb[s].pid = pid>>
    ELSE <<>>

\* wake_blocked: the task, made Ready by its caller, goes to the run queue
wake_blocked(k, t) == add_task(k, t)

\* sys_kill: the kernel state afterwards and the value returned
sys_kill(k, pid, sig) ==
    IF from_signum(sig) = <<>> THEN [k |-> k, ret |-> 0 - 1]
    ELSE IF pid <= 0 THEN [k |-> panic(k), ret |-> 0]
    ELSE IF find_task_by_pid(k, pid) = <<>> THEN [k |-> k, ret |-> 0 - 1]
    ELSE [k |-> IF k.tcb[find_task_by_pid(k, pid)[1]].task_status = "Blocked"
                THEN wake_blocked(
                        [k EXCEPT !.pcb[find_task_by_pid(k, pid)[1]].signals =
                                        @ \cup {from_signum(sig)[1]},
                                  !.tcb[find_task_by_pid(k, pid)[1]].task_status = "Ready"],
                        find_task_by_pid(k, pid)[1])
                ELSE [k EXCEPT !.pcb[find_task_by_pid(k, pid)[1]].signals =
                                        @ \cup {from_signum(sig)[1]}],
          ret |-> 0]

SysKill ==
    /\ \E t \in Procs, regs \in TrapRegs, pid \in KillPids, sig \in KillSigs :
        /\ InUser(t)
        /\ LET r == sys_kill(trap_enter_syscall(K, t, regs, pid), pid, sig) IN
           /\ Commit(syscall_return(r.k, r.ret))
           /\ ev' = Event("kill", t, [pid |-> pid, sig |-> sig], <<r.ret>>, <<>>)
    /\ UNCHANGED <<rlog, allocVars, memVars, sleepVars, tickVars, cellVars, heapVars>>

\* sys_nanosleep up to add_timer
SysNanosleepAdd ==
    /\ \E t \in Procs, regs \in TrapRegs, req \in SleepReqs :
        /\ InUser(t)
        /\ Commit([add_timer(trap_enter_syscall(K, t, regs, 0), req, t) EXCEPT
                      !.tcb[t].frame = [call |-> "nanosleep", end |-> req],
                      !.cpu = "nanosleep_block"])
        /\ ev' = Event("nanosleep_add", t, <<>>, <<>>, <<>>)
    /\ UNCHANGED <<rlog, allocVars, memVars, sleepVars, tickVars, cellVars, heapVars>>

\* sys_nanosleep at block_current_and_run_next
NanosleepBlock ==
    /\ \E t \in Procs :
        /\ ResumesAt(t, "nanosleep_block")
        /\ Commit(block_current_and_run_next(K, "nanosleep"))
        /\ ev' = Event("nanosleep_block", t, <<>>, <<>>, <<>>)
    /\ UNCHANGED <<rlog, allocVars, memVars, sleepVars, tickVars, cellVars, heapVars>>

\* processes of these runs
SigProcs == 2

\* exit codes of these runs
SigExitCodes == {0}

NextSig ==
    \/ run_tasks
    \/ ResumeTrapReturn
    \/ TimerIrq
    \/ ResumeTimer
    \/ KernelTimerIrq
    \/ SysYield
    \/ ResumeYield
    \/ SysExit(SigExitCodes)
    \/ SysClone(SigProcs)
    \/ SysNanosleepAdd
    \/ NanosleepBlock
    \/ ResumeNanosleep
    \/ SysKill

SpecSig == Init /\ [][NextSig]_vars

\* sleep, kill and exit together with wait4
NextReap ==
    \/ run_tasks
    \/ ResumeTrapReturn
    \/ TimerIrq
    \/ ResumeTimer
    \/ KernelTimerIrq
    \/ SysYield
    \/ ResumeYield
    \/ SysExit(SigExitCodes)
    \/ SysClone(SigProcs)
    \/ SysNanosleepAdd
    \/ NanosleepBlock
    \/ ResumeNanosleep
    \/ SysKill
    \/ SysWait4
    \/ ResumeWait4

SpecReap == Init /\ [][NextReap]_vars

(***************************************************************************)
(* Steps of the handle runs: the agent on the processor makes the next     *)
(* step of its path.                                                        *)
(***************************************************************************)
Cur == cell_sched.on_cpu

\* the agent on the processor has op as its next step
CellAt(op) ==
    /\ cell_sched.state = "running"
    /\ steps[Cur] # <<>>
    /\ Head(steps[Cur]).op = op

HeldBy(a) == {b.cell : b \in {h \in cells.borrowed : h.by = a}}

CellEvent(op, cell) ==
    [op |-> op, by |-> Cur, cell |-> cell, level |-> cells.nested_level,
     held |-> HeldBy(Cur)]

CellAdvance == steps' = [steps EXCEPT ![Cur] = Tail(@)]

\* UPIntrFreeCell::exclusive_access: the mask is entered, then the value is
\* borrowed; a value that is borrowed already stops the kernel
CellEnter ==
    /\ CellAt("enter")
    /\ IF \E h \in cells.borrowed : h.cell = Head(steps[Cur]).cell
       THEN /\ cell_sched' = [cell_sched EXCEPT !.state = "panic"]
            /\ cell_ev' = CellEvent("conflict", Head(steps[Cur]).cell)
            /\ UNCHANGED <<cells, steps>>
       ELSE /\ cells' = [IntrMaskingInfo_enter(cells) EXCEPT
                            !.borrowed = @ \cup {[cell |-> Head(steps[Cur]).cell,
                                                  by |-> Cur]}]
            /\ cell_ev' = CellEvent("enter", Head(steps[Cur]).cell)
            /\ CellAdvance
            /\ UNCHANGED cell_sched
    /\ UNCHANGED <<ringVars, allocVars, kernVars, memVars, sleepVars, tickVars, heapVars>>

\* exclusive_access and the Drop of the handle within one statement
CellAccess ==
    /\ CellAt("access")
    /\ IF \E h \in cells.borrowed : h.cell = Head(steps[Cur]).cell
       THEN /\ cell_sched' = [cell_sched EXCEPT !.state = "panic"]
            /\ cell_ev' = CellEvent("conflict", Head(steps[Cur]).cell)
            /\ UNCHANGED <<cells, steps>>
       ELSE /\ cells' = IntrMaskingInfo_exit(IntrMaskingInfo_enter(cells))
            /\ cell_ev' = CellEvent("access", Head(steps[Cur]).cell)
            /\ CellAdvance
            /\ UNCHANGED cell_sched
    /\ UNCHANGED <<ringVars, allocVars, kernVars, memVars, sleepVars, tickVars, heapVars>>

\* Drop of the handle: the borrow ends, then the mask is left
CellExit ==
    /\ CellAt("exit")
    /\ cells' = IntrMaskingInfo_exit(
                    [cells EXCEPT !.borrowed = @ \ {[cell |-> Head(steps[Cur]).cell,
                                                     by |-> Cur]}])
    /\ cell_ev' = CellEvent("exit", Head(steps[Cur]).cell)
    /\ CellAdvance
    /\ UNCHANGED cell_sched
    /\ UNCHANGED <<ringVars, allocVars, kernVars, memVars, sleepVars, tickVars, heapVars>>

\* enable_supervisor_interrupt, disable_supervisor_interrupt
CellSie ==
    /\ CellAt("sie_on") \/ CellAt("sie_off")
    /\ cells' = [cells EXCEPT !.sie = (Head(steps[Cur]).op = "sie_on")]
    /\ cell_ev' = CellEvent(Head(steps[Cur]).op, NoCell)
    /\ CellAdvance
    /\ UNCHANGED cell_sched
    /\ UNCHANGED <<ringVars, allocVars, kernVars, memVars, sleepVars, tickVars, heapVars>>

\* what is done inside a session: add_task, add_timer, the wake-ups of
\* check_timer, the end of a thread
CellQueue ==
    /\ CellAt("add_task") \/ CellAt("add_timer") \/ CellAt("wakeup") \/ CellAt("exited")
    /\ cell_sched' =
         IF Head(steps[Cur]).op = "add_task"
         THEN [cell_sched EXCEPT !.queue = Append(@, Cur)]
         ELSE IF Head(steps[Cur]).op = "add_timer"
         THEN [cell_sched EXCEPT !.timers = @ \cup {Cur}]
         ELSE IF Head(steps[Cur]).op = "wakeup"
         THEN [cell_sched EXCEPT !.queue = @ \o CellSeq(cell_sched.timers),
                                 !.timers = {}]
         ELSE [cell_sched EXCEPT !.dead = @ \cup {Cur}]
    /\ cell_ev' = CellEvent(Head(steps[Cur]).op, NoCell)
    /\ CellAdvance
    /\ UNCHANGED cells
    /\ UNCHANGED <<ringVars, allocVars, kernVars, memVars, sleepVars, tickVars, heapVars>>

\* fetch_task in run_tasks
CellFetch ==
    /\ CellAt("fetch")
    /\ IF cell_sched.queue = <<>>
       THEN /\ steps' = [steps EXCEPT ![Cur] = cells_run_none]
            /\ UNCHANGED cell_sched
       ELSE /\ steps' = [steps EXCEPT ![Cur] = cells_run_next(Head(cell_sched.queue))]
            /\ cell_sched' = [cell_sched EXCEPT !.queue = Tail(@)]
    /\ cell_ev' = CellEvent("fetch", NoCell)
    /\ UNCHANGED cells
    /\ UNCHANGED <<ringVars, allocVars, kernVars, memVars, sleepVars, tickVars, heapVars>>

\* __switch in schedule: from a thread to the idle control flow
CellSwitch ==
    /\ CellAt("switch")
    /\ steps' = [steps EXCEPT ![Cur] = Tail(@), ![IdleLoop] = cells_run_tasks]
    /\ cell_sched' = [cell_sched EXCEPT !.on_cpu = IdleLoop]
    /\ cell_ev' = CellEvent("switch", NoCell)
    /\ UNCHANGED cells
    /\ UNCHANGED <<ringVars, allocVars, kernVars, memVars, sleepVars, tickVars, heapVars>>

\* __switch in run_tasks: from the idle control flow to the thread fetched.
\* A thread that has exited has no context to go on with.
CellSwitchTo ==
    /\ CellAt("switch_to")
    /\ steps' = [steps EXCEPT ![Cur] = <<>>]
    /\ cell_sched' =
         IF Head(steps[Cur]).cell[2] \in cell_sched.dead
         THEN [cell_sched EXCEPT !.state = "panic"]
         ELSE [cell_sched EXCEPT !.on_cpu = Head(steps[Cur]).cell[2]]
    /\ cell_ev' = CellEvent("switch_to", Head(steps[Cur]).cell)
    /\ UNCHANGED cells
    /\ UNCHANGED <<ringVars, allocVars, kernVars, memVars, sleepVars, tickVars, heapVars>>

\* __restore: the thread is in user mode
CellReturn ==
    /\ CellAt("user")
    /\ cell_ev' = CellEvent("user", NoCell)
    /\ CellAdvance
    /\ UNCHANGED <<cells, cell_sched>>
    /\ UNCHANGED <<ringVars, allocVars, kernVars, memVars, sleepVars, tickVars, heapVars>>

\* shutdown() in the exit of the init process
CellShutdown ==
    /\ CellAt("shutdown")
    /\ cell_sched' = [cell_sched EXCEPT !.state = "shutdown"]
    /\ cell_ev' = CellEvent("shutdown", NoCell)
    /\ UNCHANGED <<cells, steps>>
    /\ UNCHANGED <<ringVars, allocVars, kernVars, memVars, sleepVars, tickVars, heapVars>>

\* a trap from user mode: the hardware clears sstatus.sie, and trap_handler
\* takes the arm of the cause
CellTrap ==
    /\ cell_sched.state = "running"
    /\ Cur \in CellThreads
    /\ steps[Cur] = <<>>
    /\ \E pth \in CellPaths(Cur) : steps' = [steps EXCEPT ![Cur] = pth]
    /\ cells' = [cells EXCEPT !.sie = FALSE]
    /\ cell_ev' = CellEvent("trap", NoCell)
    /\ UNCHANGED cell_sched
    /\ UNCHANGED <<ringVars, allocVars, kernVars, memVars, sleepVars, tickVars, heapVars>>

\* a timer interrupt in kernel mode while sstatus.sie is set; the hardware
\* clears sstatus.sie for the handler
CellKernelIrq ==
    /\ cell_sched.state = "running"
    /\ steps[Cur] # <<>>
    /\ cells.sie
    /\ Len(cell_sched.queue) < MaxCellQueue
    /\ steps' = [steps EXCEPT ![Cur] = cells_trap_from_kernel \o @]
    /\ cells' = [cells EXCEPT !.sie = FALSE]
    /\ cell_ev' = CellEvent("kernel_irq", NoCell)
    /\ UNCHANGED cell_sched
    /\ UNCHANGED <<ringVars, allocVars, kernVars, memVars, sleepVars, tickVars, heapVars>>

NextCell ==
    \/ CellEnter
    \/ CellAccess
    \/ CellExit
    \/ CellSie
    \/ CellQueue
    \/ CellFetch
    \/ CellSwitch
    \/ CellSwitchTo
    \/ CellReturn
    \/ CellShutdown
    \/ CellTrap
    \/ CellKernelIrq

SpecCell == Init /\ [][NextCell]_vars

(***************************************************************************)
(* Sleeping with the interrupt-enable bit.  sstatus.sie (cells.sie) is     *)
(* cleared by the hardware at every trap, set by the syscall arm of        *)
(* trap_handler and cleared by trap_return; __switch does not touch it, so *)
(* the idle loop runs with the bit of the thread that switched to it.  A   *)
(* timer interrupt of kernel mode is taken only while the bit is set.      *)
(* Time passes in steps of a millisecond.                                  *)
(***************************************************************************)
\* processes of these runs
NapProcs == 2

\* milliseconds asked for
NapReqs == {0, 1}

\* the step to kernel state k; sie is the bit the kernel code leaves
NapStep(k, sie, e) ==
    /\ Commit(k)
    /\ ev' = e
    /\ cells' = [cells EXCEPT !.sie = IF k.cpu = "user" THEN FALSE ELSE sie]
    /\ UNCHANGED <<rlog, allocVars, memVars, sleepVars, tickVars,
                   cell_sched, steps, cell_ev, heapVars>>

\* a new thread starts at trap_return
NapTrapReturn ==
    \E t \in Procs :
        /\ ResumesAt(t, "trap_return")
        /\ NapStep(trap_return(K), cells.sie, NoEvent)

\* the timer interrupt in user mode
NapTimerIrq ==
    \E t \in Procs, regs \in TrapRegs, ord \in PopOrders(TIMERS) :
        /\ InUser(t)
        /\ NapStep(suspend_current_and_run_next(
                       check_timer(trap_enter(K, t, regs), ord), "timer"),
                   FALSE, Event("timer", t, <<>>, <<>>, <<>>))

NapResumeTimer ==
    \E t \in Procs :
        /\ ResumesAt(t, "timer")
        /\ NapStep(trap_handler_tail(K), cells.sie, NoEvent)

\* the timer interrupt in kernel mode (trap_from_kernel), taken while
\* sstatus.sie is set; sret restores the bit
NapKernelIrq ==
    /\ machine = "running"
    /\ cpu # "user"
    /\ cells.sie
    /\ DueTimers(TIMERS) # {}
    /\ \E ord \in PopOrders(TIMERS) :
        NapStep(check_timer(K, ord), cells.sie,
                Event("kernel_timer", INITPROC, <<>>, <<>>, <<>>))

\* a fault or an illegal instruction in user mode
NapFault ==
    \E t \in Procs, regs \in TrapRegs, cause \in FaultCauses :
        /\ InUser(t)
        /\ NapStep(trap_handler_tail(
                       current_add_signal(trap_enter(K, t, regs), fault_signal(cause))),
                   FALSE, Event("fault", t, cause, <<>>, <<>>))

\* sys_nanosleep up to add_timer
NapSleepAdd ==
    \E t \in Procs, regs \in TrapRegs, req \in NapReqs :
        /\ InUser(t)
        /\ NapStep([add_timer(trap_enter_syscall(K, t, regs, 0), req, t) EXCEPT
                       !.tcb[t].frame = [call |-> "nanosleep", end |-> req],
                       !.cpu = "nanosleep_block"],
                   TRUE, Event("nanosleep_add", t, req, <<>>, <<>>))

\* sys_nanosleep at block_current_and_run_next
NapBlock ==
    \E t \in Procs :
        /\ ResumesAt(t, "nanosleep_block")
        /\ NapStep(block_current_and_run_next(K, "nanosleep"), cells.sie,
                   Event("nanosleep_block", t, <<>>, <<>>, <<>>))

\* sys_nanosleep after block_current_and_run_next returned
NapResume ==
    \E t \in Procs :
        /\ ResumesAt(t, "nanosleep")
        /\ NapStep(IF tcb[t].frame.call # "nanosleep"
                   THEN panic([K EXCEPT !.tcb[t].frame = NoFrame])
                   ELSE IF pcb[t].signals = {}
                   THEN IF tcb[t].frame.end = 0
                        THEN syscall_return([K EXCEPT !.tcb[t].frame = NoFrame], 0)
                        ELSE panic([K EXCEPT !.tcb[t].frame = NoFrame])
                   ELSE syscall_return([K EXCEPT !.tcb[t].frame = NoFrame], 0 - 1),
                   cells.sie, Event("nanosleep", t, <<>>, <<0>>, <<>>))

\* sys_clone while fewer than NapProcs processes exist
NapClone ==
    \E t \in Procs, regs \in UserRegs, flags \in CloneFlagWords :
        /\ InUser(t)
        /\ Cardinality(Procs \ FreeSlots(K)) < NapProcs
        /\ NapStep(syscall_return(
                       [sys_clone(trap_enter_syscall(K, t, regs, flags), t, flags).k
                           EXCEPT !.tcb[sys_clone(trap_enter_syscall(K, t, regs, flags),
                                                  t, flags).child].born = <<regs>>],
                       sys_clone(trap_enter_syscall(K, t, regs, flags), t, flags).ret),
                   TRUE, Event("clone", t, [flags |-> flags], <<>>, <<>>))

\* a millisecond passes: every expire_ms and every end comes nearer
NapClock ==
    /\ machine = "running"
    /\ \E i \in 1..Len(TIMERS) : TIMERS[i].ms > 0
    /\ TIMERS' = [i \in 1..Len(TIMERS) |->
                    [TIMERS[i] EXCEPT !.ms = IF @ > 0 THEN @ - 1 ELSE 0]]
    /\ tcb' = [t \in Procs |->
                 IF tcb[t].frame.call = "nanosleep" /\ tcb[t].frame.end > 0
                 THEN [tcb[t] EXCEPT !.frame.end = @ - 1] ELSE tcb[t]]
    /\ ev' = Event("clock", INITPROC, <<>>, <<>>, <<>>)
    /\ UNCHANGED <<machine, PID_ALLOCATOR, KSTACK_ALLOCATOR, pcb, ready_queue, current,
                   cpu, pid2process, pipe, ringVars, allocVars, memVars, sleepVars,
                   tickVars, cellVars, heapVars>>

NextNap ==
    \/ run_tasks
    \/ NapTrapReturn
    \/ NapTimerIrq
    \/ NapResumeTimer
    \/ NapKernelIrq
    \/ NapFault
    \/ NapSleepAdd
    \/ NapBlock
    \/ NapResume
    \/ NapClone
    \/ NapClock

SpecNap == Init /\ [][NextNap]_vars

\* the kernel's code runs on, time passes, and the timer interrupt is taken
\* in user mode and, while sstatus.sie is set, in kernel mode
NapFairness ==
    /\ WF_vars(run_tasks)
    /\ WF_vars(NapTrapReturn)
    /\ WF_vars(NapResumeTimer)
    /\ WF_vars(NapBlock)
    /\ WF_vars(NapResume)
    /\ WF_vars(NapClock)
    /\ WF_vars(NapTimerIrq)
    /\ WF_vars(NapKernelIrq)

FairSpecNap == SpecNap /\ NapFairness

(***************************************************************************)
(* Calls of the init process that name the pages at the top of its address *)
(* space: the trampoline, the trap context and the user stack of thread 0. *)
(***************************************************************************)
GuardMmapCalls == {<<0, PAGE_SIZE>>, <<trap_cx_bottom_from_tid(0), PAGE_SIZE>>}

GuardMunmapCalls ==
    {<<3 * PAGE_SIZE, PAGE_SIZE>>,
     <<TRAMPOLINE, PAGE_SIZE>>,
     <<trap_cx_bottom_from_tid(0), PAGE_SIZE>>,
     <<trap_cx_bottom_from_tid(0), 2 * PAGE_SIZE>>,
     <<ustack_bottom_from_tid(0), USER_STACK_SIZE>>}

GuardBrkAddrs == {0, 3 * PAGE_SIZE}

\* read and write: fd, buf and len
GuardReadCalls ==
    {<<0, 3 * PAGE_SIZE, 1>>, <<0, trap_cx_bottom_from_tid(0) + 16, 1>>,
     <<0, ustack_bottom_from_tid(0), 1>>}

GuardWriteCalls ==
    {<<1, 3 * PAGE_SIZE, 1>>, <<1, trap_cx_bottom_from_tid(0), 1>>}

NextGuard ==
    \/ SysMmap({INITPROC}, GuardMmapCalls)
    \/ SysMunmap({INITPROC}, GuardMunmapCalls)
    \/ SysBrk({INITPROC}, GuardBrkAddrs)
    \/ SysReadStdio({INITPROC}, GuardReadCalls)
    \/ SysWriteStdio({INITPROC}, GuardWriteCalls)

SpecGuard == Init /\ [][NextGuard]_vars

(***************************************************************************)
(* Calls on the sleep heap.                                                *)
(***************************************************************************)
HeapUnchanged ==
    UNCHANGED <<ringVars, allocVars, kernVars, memVars, sleepVars, tickVars, cellVars>>

\* add_timer(expire_ms, task)
HeapAdd ==
    /\ Len(timer_heap) < MaxTimers
    /\ \E e \in HeapExpiries, t \in HeapTasks :
        /\ timer_heap' = Append(timer_heap, [expire_ms |-> e, task |-> t])
        /\ heap_ev' = [op |-> "add_timer"]
    /\ UNCHANGED heap_now
    /\ HeapUnchanged

\* time passes
HeapTick ==
    /\ heap_now < MaxNow
    /\ heap_now' = heap_now + 1
    /\ heap_ev' = [op |-> "tick"]
    /\ UNCHANGED timer_heap
    /\ HeapUnchanged

\* check_timer
HeapCheck ==
    /\ \E r \in check_timer_heap(timer_heap, heap_now) :
        /\ timer_heap' = r.heap
        /\ heap_ev' = [op |-> "check_timer", before |-> timer_heap, woken |-> r.woken]
    /\ UNCHANGED heap_now
    /\ HeapUnchanged

NextHeap == HeapAdd \/ HeapTick \/ HeapCheck

SpecHeap == Init /\ [][NextHeap]_vars

(***************************************************************************)
(* The interrupt mask by itself: sequences of IntrMaskingInfo::enter and   *)
(* IntrMaskingInfo::exit, each exit the end of a handle an earlier enter   *)
(* began, and the writes of the interrupt-enable bit by the trap code      *)
(* between them.  cell_ev keeps what the calls found: open, the handles    *)
(* that have not ended; outer, the bit before the outermost enter; deep,   *)
(* the most handles open since then.                                       *)
(***************************************************************************)
\* the cells of these runs
MaskCells == {ProcessorCell, ManagerCell, TimersCell, PipeCell}

MaskOpen == IF cell_ev.op = "none" THEN 0 ELSE cell_ev.open

MaskUnchanged ==
    UNCHANGED <<cell_sched, steps, ringVars, allocVars, kernVars, memVars, sleepVars,
                tickVars, heapVars>>

\* IntrMaskingInfo::enter, called by exclusive_access
MaskEnter ==
    /\ \E c \in MaskCells :
        /\ \A h \in cells.borrowed : h.cell # c
        /\ cells' = [IntrMaskingInfo_enter(cells) EXCEPT
                        !.borrowed = @ \cup {[cell |-> c, by |-> IdleLoop]}]
        /\ cell_ev' = [op |-> "enter", cell |-> c, open |-> MaskOpen + 1,
                       outer |-> IF MaskOpen = 0 THEN cells.sie ELSE cell_ev.outer,
                       deep |-> IF MaskOpen = 0 THEN 1
                                ELSE IF MaskOpen + 1 > cell_ev.deep THEN MaskOpen + 1
                                ELSE cell_ev.deep]
    /\ MaskUnchanged

\* IntrMaskingInfo::exit, called when a handle is dropped
MaskExit ==
    /\ \E h \in cells.borrowed :
        /\ cells' = IntrMaskingInfo_exit([cells EXCEPT !.borrowed = @ \ {h}])
        /\ cell_ev' = [cell_ev EXCEPT !.op = "exit", !.cell = h.cell, !.open = @ - 1]
    /\ MaskUnchanged

\* the trap code sets or clears the interrupt-enable bit; it holds no handle
MaskSie ==
    /\ cells.borrowed = {}
    /\ \E b \in BOOLEAN :
        /\ cells' = [cells EXCEPT !.sie = b]
        /\ cell_ev' = [op |-> "sie", cell |-> NoCell, open |-> 0, outer |-> b, deep |-> 0]
    /\ MaskUnchanged

NextMask == MaskEnter \/ MaskExit \/ MaskSie

SpecMask == Init /\ [][NextMask]_vars

(***************************************************************************)
(* Calls of translated_byte_buffer on the address space of the init        *)
(* process, and the walk of the UserBuffer made of the slices.  mev keeps  *)
(* the call, the slices, UserBuffer::len, the iterator, the number of      *)
(* calls of next and the last item.                                        *)
(***************************************************************************)
BufBrkAddrs == {3 * PAGE_SIZE, 2 * PAGE_SIZE}

BufMunmapCalls == {<<ustack_bottom_from_tid(0), PAGE_SIZE>>}

\* ptr and len
BufCalls ==
    {<<PAGE_SIZE + 5, 3>>,
     <<PAGE_SIZE + 5, 0>>,
     <<2 * PAGE_SIZE - 2, 4>>,
     <<2 * PAGE_SIZE - 1, PAGE_SIZE + 1>>,
     <<3 * PAGE_SIZE - 1, 3>>,
     <<ustack_bottom_from_tid(0) + PAGE_SIZE - 2, 4>>,
     <<TRAP_CONTEXT_BASE + PAGE_SIZE - 2, 4>>,
     <<TRAMPOLINE + PAGE_SIZE - 4, 3>>,
     <<TRAMPOLINE + PAGE_SIZE - 2, 2>>}

BufTranslate ==
    /\ \E p \in {INITPROC}, c \in BufCalls :
        /\ MemRunning(p)
        /\ LET r == translated_byte_buffer_call(uspace[p].ms.page_table, c[1], c[2]) IN
           \E o \in r.outcomes :
            /\ machine' = IF o = "panic" THEN "panic" ELSE machine
            /\ mev' = [op |-> "translated_byte_buffer", p |-> p, ptr |-> c[1], len |-> c[2],
                       outcome |-> o, v |-> r.v, ulen |-> UserBuffer_len(r.v),
                       it |-> UserBuffer_into_iter, k |-> 0, item |-> <<>>]
    /\ UNCHANGED <<uspace, frames>>
    /\ UNCHANGED <<ringVars, allocVars, procVars, sleepVars, tickVars, cellVars, heapVars>>

\* one call of next on the iterator
BufNext ==
    /\ machine = "running"
    /\ mev.op \in {"translated_byte_buffer", "next"}
    /\ mev.op = "next" => mev.item # <<>>
    /\ LET r == UserBufferIterator_next(mev.v, mev.it) IN
        /\ machine' = IF r.panic THEN "panic" ELSE machine
        /\ mev' = [mev EXCEPT !.op = "next", !.it = r.it, !.item = r.item, !.k = @ + 1,
                              !.outcome = IF r.panic THEN "panic" ELSE "return"]
    /\ UNCHANGED <<uspace, frames>>
    /\ UNCHANGED <<ringVars, allocVars, procVars, sleepVars, tickVars, cellVars, heapVars>>

NextBuf ==
    \/ SysMunmap({INITPROC}, BufMunmapCalls)
    \/ SysBrk({INITPROC}, BufBrkAddrs)
    \/ BufTranslate
    \/ BufNext

SpecBuf == Init /\ [][NextBuf]_vars

(***************************************************************************)
(* Calls of mmap and munmap by the init process whose start or len reach   *)
(* to the top of the address space and past it.                            *)
(***************************************************************************)
\* the size of the address space
VaSize == 2 ^ VaBits

\* start and len
RangeMmapCalls ==
    {<<0, PAGE_SIZE>>,
     <<3 * PAGE_SIZE, PAGE_SIZE>>,
     <<5 * PAGE_SIZE, 2 * PAGE_SIZE>>,
     <<3 * PAGE_SIZE, VaSize - 2 * PAGE_SIZE>>,
     <<3 * PAGE_SIZE, VaSize>>,
     <<5 * PAGE_SIZE, VaSize + PAGE_SIZE>>,
     <<VaSize + 3 * PAGE_SIZE, PAGE_SIZE>>,
     <<TRAMPOLINE, 16>>,
     <<TRAP_CONTEXT_BASE - PAGE_SIZE, 3 * PAGE_SIZE>>}

RangeMunmapCalls ==
    {<<3 * PAGE_SIZE, PAGE_SIZE>>,
     <<5 * PAGE_SIZE, 2 * PAGE_SIZE>>,
     <<3 * PAGE_SIZE, VaSize + PAGE_SIZE>>,
     <<3 * PAGE_SIZE, VaSize - 2 * PAGE_SIZE>>,
     <<3 * PAGE_SIZE, VaSize>>,
     <<VaSize + 3 * PAGE_SIZE, PAGE_SIZE>>,
     <<TRAMPOLINE, PAGE_SIZE>>,
     <<VaSize - PAGE_SIZE, PAGE_SIZE>>}

NextRange ==
    \/ SysMmap({INITPROC}, RangeMmapCalls)
    \/ SysMunmap({INITPROC}, RangeMunmapCalls)

SpecRange == Init /\ [][NextRange]_vars

(***************************************************************************)
(* The user resources of the threads of one process: TaskUserRes::new      *)
(* takes a thread id from the tid allocator of the process, and            *)
(* alloc_user_res places the user stack and the trap-context page of that  *)
(* id.  A TaskUserRes is dropped once.                                     *)
(***************************************************************************)
\* most threads of the process alive at once
MaxThreads == 7

\* the two ranges alloc_user_res inserts for tid, as [bottom, top)
UserResRanges(tid) ==
    [ustack_bottom |-> ustack_bottom_from_tid(tid),
     ustack_top |-> ustack_bottom_from_tid(tid) + USER_STACK_SIZE,
     trap_cx_bottom |-> trap_cx_bottom_from_tid(tid),
     trap_cx_top |-> trap_cx_bottom_from_tid(tid) + PAGE_SIZE]

\* TaskUserRes::new(process, true)
LayoutNew ==
    /\ machine = "running"
    /\ Len(handles.tid) < MaxThreads
    /\ LET got == RecycleAllocator_alloc(allocators.tid) IN
       /\ allocators' = [allocators EXCEPT !.tid = got.alloc]
       /\ handles' = [handles EXCEPT !.tid = Append(@, got.id)]
       /\ mev' = [op |-> "alloc_user_res", tid |-> got.id,
                  res |-> UserResRanges(got.id)]
    /\ UNCHANGED <<ringVars, kernVars, uspace, frames, sleepVars, tickVars, cellVars,
                   heapVars>>

\* Drop for TaskUserRes: dealloc_tid, dealloc_user_res
LayoutDrop ==
    /\ machine = "running"
    /\ \E i \in 1..Len(handles.tid) :
        /\ handles' = [handles EXCEPT !.tid = RemoveAt(@, i)]
        /\ mev' = [op |-> "dealloc_user_res", tid |-> handles.tid[i],
                   res |-> UserResRanges(handles.tid[i])]
        /\ IF RecycleAllocator_dealloc_ok(allocators.tid, handles.tid[i])
           THEN /\ allocators' = [allocators EXCEPT
                       !.tid = RecycleAllocator_dealloc(@, handles.tid[i])]
                /\ UNCHANGED machine
           ELSE /\ machine' = "panic"
                /\ UNCHANGED allocators
    /\ UNCHANGED <<ringVars, procVars, uspace, frames, sleepVars, tickVars, cellVars,
                   heapVars>>

NextLayout == LayoutNew \/ LayoutDrop

SpecLayout == Init /\ [][NextLayout]_vars
(***************************************************************************)
(* Fairness.  The kernel's code runs: the idle loop dispatches the front   *)
(* of a non-empty run queue, and a thread that resumes in the kernel runs  *)
(* on to its return to user mode or to its next switch.  Timer interrupts  *)
(* keep arriving: a thread in user mode is eventually switched out.  Each  *)
(* condition is stated on the shape of the step (what it does to machine,  *)
(* cpu and current), which singles out the steps of run_tasks, of the      *)
(* Resume actions and of the traps that leave user mode.                   *)
(***************************************************************************)
sched == <<machine, cpu, current>>

\* the places a thread resumes at in the kernel
Continuations == {"trap_return", "timer", "yield", "wait4", "nanosleep", "read", "write"}

\* a step of run_tasks
Dispatches ==
    /\ machine = "running"
    /\ cpu = "idle"
    /\ ready_queue # <<>>
    /\ current' = <<Head(ready_queue)>>
    /\ cpu' \in Continuations
    /\ machine' = machine

\* a step of a thread that resumes in the kernel
KernelRuns ==
    /\ machine = "running"
    /\ cpu \in Continuations
    /\ cpu' \in {"user", "idle", cpu}
    /\ machine' \in {"running", "panic", "shutdown"}
    /\ current' \in {current, <<>>}
    /\ (cpu' # cpu \/ machine' # machine)

\* a trap that ends the stay of the current thread in user mode
LeavesUser ==
    /\ machine = "running"
    /\ cpu = "user"
    /\ cpu' \in {"idle", cpu}
    /\ machine' \in {"running", "panic", "shutdown"}
    /\ current' \in {current, <<>>}
    /\ (cpu' # cpu \/ machine' # machine)

Fairness == WF_sched(Dispatches) /\ WF_sched(KernelRuns) /\ WF_sched(LeavesUser)

FairSpec == Spec /\ Fairness


FairSpecPipe == SpecPipe /\ Fairness
\* C3: in every reachable state of a pipe ring buffer, status = Empty implies
\* available_read = 0, status = Full implies available_write = 0, and
\* status = Normal implies that both are greater than 0.
C3_RingStatus ==
    /\ ring.status = "Empty" => available_read(ring) = 0
    /\ ring.status = "Full" => available_write(ring) = 0
    /\ ring.status = "Normal" => (available_read(ring) > 0 /\ available_write(ring) > 0)

\* the ring has filled up, wrapped around, and a read has taken it out of Full
C3_Witness ==
    /\ ring.status = "Normal"
    /\ ring.tail < ring.head
    /\ rlog.op \in {"read", "read_at"}
    /\ rlog.ret > 0
    /\ available_write(ring) = rlog.ret

\* C6: after any sequence of allocations and handle drops, the ids held by live
\* PidHandles, by the live TaskUserRes of one process, and by live KernelStacks
\* are pairwise distinct: no allocator returns an id a live handle still holds.
C6_LiveIdsDistinct ==
    /\ NoDup(handles.pid)
    /\ NoDup(handles.tid)
    /\ NoDup(handles.kstack)

\* ids were dropped and handed out again while other handles stayed alive
C6_Witness ==
    /\ Len(handles.pid) = MaxHandles /\ handles.pid[MaxHandles] < handles.pid[1]
    /\ Len(handles.tid) = 2 /\ handles.tid[2] < handles.tid[1]
    /\ Len(handles.kstack) = 2 /\ handles.kstack[2] < handles.kstack[1]
    /\ allocators.tid.recycled # <<>>
(***************************************************************************)
(* C1.  In every reachable state at most one TCB has task_status Running,  *)
(* and whenever the processor's current slot is occupied the TCB in it is  *)
(* the one that is Running.                                                *)
(***************************************************************************)
RunningTcbs == {t \in Procs : tcb[t].live /\ tcb[t].task_status = "Running"}

\* C1: at most one TCB is Running, and a thread that executes is that one
C1_UniqueRunning ==
    /\ Cardinality(RunningTcbs) <= 1
    /\ current # <<>> => RunningTcbs = {current[1]}

\* an exited thread is still marked Running while another thread runs
C1_Witness ==
    \E t \in Procs :
        /\ current # <<>>
        /\ current # <<t>>
        /\ tcb[t].live
        /\ tcb[t].exit_code # <<>>
        /\ tcb[t].task_status = "Running"
        /\ tcb[current[1]].task_status = "Running"

(***************************************************************************)
(* C2.  Every thread that is Ready and in the run queue is eventually      *)
(* dispatched by run_tasks, as long as the machine keeps running, and the  *)
(* run queue is first in, first out: it changes only by run_tasks taking   *)
(* its front, which becomes current, or by threads being added at its back. *)
(***************************************************************************)
QueueIsFifo ==
    \/ ready_queue' = ready_queue
    \/ /\ ready_queue # <<>>
       /\ ready_queue' = Tail(ready_queue)
       /\ current = <<>>
       /\ current' = <<Head(ready_queue)>>
    \/ /\ Len(ready_queue') > Len(ready_queue)
       /\ SubSeq(ready_queue', 1, Len(ready_queue)) = ready_queue

\* C2: the run queue is served first in, first out, and a Ready thread in it
\* is eventually dispatched while the machine runs
C2_ReadyDispatched ==
    /\ [][QueueIsFifo]_vars
    /\ \A t \in Procs :
          (t \in Range(ready_queue) /\ tcb[t].task_status = "Ready")
              ~> (current = <<t>> \/ machine # "running")

\* a thread that was queued behind another one has been dispatched after it
C2_Witness ==
    /\ Len(ready_queue) >= 2
    /\ current # <<>>
    /\ tcb[current[1]].task_cx = "timer"
    /\ cpu = "timer"

(***************************************************************************)
(* C7.  When a process reaps, with wait4 and a non-null status pointer, a  *)
(* child whose main thread called sys_exit(c), wait4 returns the child's   *)
(* pid and the word it writes to *status has (status >> 8) & 0xff equal to *)
(* c & 0xff.                                                               *)
(***************************************************************************)
\* this step is a wait4 of t in which the PCB in slot s is freed
Reaps(t, s) ==
    /\ ev'.op = "wait4"
    /\ ev'.t = t
    /\ s \in Range(pcb[t].children)
    /\ pcb[s].live
    /\ ~pcb'[s].live

\* C7: reaping a child that called sys_exit(c) returns its pid and writes a
\* status word with (status >> 8) & 0xff = c & 0xff
C7_ExitStatus ==
    [][\A t, s \in Procs :
          (/\ Reaps(t, s)
           /\ ev'.arg.status
           /\ tcb[s].frame.call = "exit")
          => /\ ev'.ret = <<pcb[s].pid>>
             /\ ev'.out # <<>>
             /\ StatusByte(ev'.out[1]) = tcb[s].frame.code % 256]_vars

\* a child that called sys_exit(298) has been reaped: the word is 42 << 8
C7_Witness ==
    /\ ev.op = "wait4"
    /\ ev.arg.status
    /\ ev.ret # <<>>
    /\ ev.ret[1] > 0
    /\ ev.out = <<10752>>

(***************************************************************************)
(* C8.  A call of wait4 by a process with no child matching pid (pid = -1  *)
(* matches any child) returns -1 at once and changes nothing; a call with  *)
(* WNOHANG when a child matches but no matching child is a zombie returns  *)
(* 0 at once and leaves the children list as it is.                        *)
(***************************************************************************)
MatchingChildren(t, pid) ==
    {s \in Range(pcb[t].children) : pid = 0 - 1 \/ pcb[s].pid = pid}

\* the step changes nothing but the registers saved at the trap
NothingChanged(t) ==
    /\ pcb' = pcb
    /\ ready_queue' = ready_queue
    /\ current' = current
    /\ pid2process' = pid2process
    /\ TIMERS' = TIMERS
    /\ PID_ALLOCATOR' = PID_ALLOCATOR
    /\ KSTACK_ALLOCATOR' = KSTACK_ALLOCATOR
    /\ \A s \in Procs :
          [tcb'[s] EXCEPT !.trap_cx = tcb[s].trap_cx, !.born = tcb[s].born] = tcb[s]

Wait4Fails(t) ==
    LET a == ev'.arg
        matching == MatchingChildren(t, a.pid)
    IN  /\ matching = {}
           => /\ ev'.ret = <<0 - 1>>
              /\ cpu' = "user"
              /\ machine' = "running"
              /\ NothingChanged(t)
        /\ (/\ matching # {}
            /\ \A s \in matching : ~pcb[s].is_zombie
            /\ a.option % 2 = 1)
           => /\ ev'.ret = <<0>>
              /\ cpu' = "user"
              /\ machine' = "running"
              /\ pcb'[t].children = pcb[t].children

\* C8: for every option word, wait4 with no matching child returns -1 and
\* changes nothing, and with WNOHANG and no matching zombie returns 0
C8_Wait4NoChild ==
    [][\A t \in Procs :
          (InUser(t) /\ ev'.op = "wait4" /\ ev'.t = t) => Wait4Fails(t)]_vars

\* C8 for the calls whose option word has only bits of WaitOption
C8_Wait4NoChild_DefinedOptions ==
    [][\A t \in Procs :
          (/\ InUser(t)
           /\ ev'.op = "wait4"
           /\ ev'.t = t
           /\ (ev'.arg.option \div 16) \in {0, 1048576}) => Wait4Fails(t)]_vars

\* wait4 has returned -1 to a process that has a child, and 0 under WNOHANG
C8_Witness ==
    /\ ev.op = "wait4"
    /\ cpu = "user"
    /\ pcb[ev.t].children # <<>>
    /\ ev.ret = <<0 - 1>>

(***************************************************************************)
(* C9.  A call of wait4 without WNOHANG returns a pid only when, as the    *)
(* call looks, a matching child with that pid is a zombie; and a call that *)
(* is waiting while a matching child is a zombie eventually returns, as    *)
(* long as the machine keeps running.                                      *)
(***************************************************************************)
\* thread t is switched out inside the loop of sys_wait4
Waiting(t) == tcb[t].live /\ tcb[t].frame.call = "wait4"

\* child s of t is a zombie that the waiting call of t matches
ZombieFor(t, s) ==
    /\ Waiting(t)
    /\ s \in MatchingChildren(t, tcb[t].frame.pid)
    /\ pcb[s].is_zombie

\* the last step was the return of a pid from a call of wait4 by t
Wait4Returned(t) ==
    /\ ev.op = "wait4"
    /\ ev.t = t
    /\ ev.ret # <<>>
    /\ ev.ret[1] > 0

ReturnsOnlyZombies ==
    \A t \in Procs :
        (/\ ev'.op = "wait4"
         /\ ev'.t = t
         /\ ev'.arg.option % 2 = 0
         /\ ev'.ret # <<>>
         /\ ev'.ret[1] # 0 - 1)
        => \E s \in MatchingChildren(t, ev'.arg.pid) :
              /\ pcb[s].is_zombie
              /\ ev'.ret = <<pcb[s].pid>>
              /\ ~pcb'[s].live

CloneReturnsChildPid ==
    ev.op = "clone" =>
        LET child == ev.out[1] IN
        /\ pcb[child].live
        /\ ev.ret = <<pcb[child].pid>>
        /\ tcb[ev.t].trap_cx.a0 = pcb[child].pid
        /\ \A s \in Procs \ {child} : pcb[s].live => pcb[s].pid # pcb[child].pid

ChildResumesAfterClone(t) ==
    LET b == tcb[t].born[1] IN
    /\ tcb[t].trap_cx.a0 = 0
    /\ tcb[t].trap_cx.sepc = b.pc + 4
    /\ tcb[t].trap_cx.x = b.x
    /\ tcb[t].trap_cx.kernel_sp = kernel_stack_top(tcb[t].kstack)
    /\ \A s \in Procs \ {t} :
          tcb[s].live => tcb[t].trap_cx.kernel_sp # kernel_stack_top(tcb[s].kstack)
    /\ tcb[t].task_cx = "trap_return"
    /\ current = <<t>> => cpu \in {"trap_return", "user"}

\* C10: the parent got the child's pid, and a child that has not trapped yet
\* resumes after the clone call with a0 = 0 on its own kernel stack
C10_CloneChild ==
    /\ CloneReturnsChildPid
    /\ \A t \in Procs : (tcb[t].live /\ tcb[t].born # <<>>) => ChildResumesAfterClone(t)

\* a child cloned at pc = 4 runs in user mode for the first time
C10_Witness ==
    \E t \in Procs :
        /\ InUser(t)
        /\ tcb[t].born # <<>>
        /\ tcb[t].born[1].x = 1
        /\ tcb[t].trap_cx.sepc = 8
        /\ tcb[t].kstack # 0

(***************************************************************************)
(* C4.  A pass of Pipe::read on the read end that finds the ring empty and *)
(* no strong reference to the write end returns in the same step, without  *)
(* switching the caller out, with the number of bytes copied before the    *)
(* pass: 0 for a call that starts there.                                   *)
(***************************************************************************)
\* the step is a pass of Pipe::read made by t: the start of a call of
\* sys_read on the read end, or the retry after a yield
ReadsPipe(t) ==
    /\ ev'.op = "read"
    /\ ev'.t = t
    /\ \/ ResumesAt(t, "read")
       \/ /\ InUser(t)
          /\ ev'.arg.fd < Len(pcb[t].fd_table)
          /\ pcb[t].fd_table[ev'.arg.fd + 1] = "pipe_r"

ReadAtEof(t) ==
    (/\ ReadsPipe(t)
     /\ available_read(ring) = 0
     /\ write_end_strong_count(K) = 0)
    => /\ ev'.ret = <<ev'.arg.already>>
       /\ ev'.out = <<IF ResumesAt(t, "read") THEN tcb[t].frame.bytes ELSE <<>> >>
       /\ ring' = ring
       /\ machine' = "running"
       /\ current' = <<t>>
       /\ cpu' = "user"
       /\ tcb'[t].trap_cx.a0 = ev'.arg.already

\* C4: a read pass at an empty ring with no write end left returns at once
\* with the bytes already copied
C4_ReadAtEof == [][\A t \in Procs : ReadAtEof(t)]_vars

\* a call that was switched out with bytes copied returned them at the end
\* of file
C4_Witness ==
    \E t \in Procs :
        /\ InUser(t)
        /\ ev.op = "read"
        /\ ev.t = t
        /\ ev.arg.already > 0
        /\ ev.ret = <<ev.arg.already>>
        /\ available_read(ring) = 0
        /\ write_end_strong_count(K) = 0

(***************************************************************************)
(* C5.  Pipe hello: a process makes a pipe and clones; the child writes    *)
(* the five bytes of "hello" and closes the write end.  The parent's read  *)
(* with a 16-byte buffer eventually returns 5 with these bytes in order,   *)
(* and a read after that returns 0.                                        *)
(***************************************************************************)
Hello == StreamFrom(1, 5)

\* child c of t wrote the five bytes, the only bytes written, and holds the
\* write end no more
HelloWritten(t, c) ==
    /\ c # t
    /\ pcb[c].live
    /\ pcb[c].parent = <<t>>
    /\ pipe.wrote = {c}
    /\ pipe.writes = 1
    /\ pipe.written = 5
    /\ "pipe_w" \notin Range(pcb[c].fd_table)
    /\ tcb[c].frame.call # "write"

\* no process but t reads from the pipe or can
OnlyReader(t) ==
    \A s \in Procs \ {t} :
        /\ "pipe_r" \notin Range(pcb[s].fd_table)
        /\ tcb[s].frame.call # "read"

\* t is switched out in its read with a 16-byte buffer, and has the bytes
\* that left the ring
HelloWaiting(t, c) ==
    /\ HelloWritten(t, c)
    /\ OnlyReader(t)
    /\ tcb[t].live
    /\ tcb[t].frame.call = "read"
    /\ tcb[t].frame.want = 16
    /\ tcb[t].frame.already = pipe.taken

\* the last step was the return of t's read with the five bytes
HelloRead(t) ==
    /\ ev.op = "read"
    /\ ev.t = t
    /\ ev.ret = <<5>>
    /\ ev.out = <<Hello>>

\* a read of t that returns returns the five bytes
ReturnsHello(t, c) ==
    (/\ HelloWritten(t, c)
     /\ OnlyReader(t)
     /\ ReadsPipe(t)
     /\ ev'.arg.len = 16
     /\ ev'.arg.already = pipe.taken
     /\ pipe.taken < 5
     /\ ev'.ret # <<>>)
    => /\ ev'.ret = <<5>>
       /\ ev'.out = <<Hello>>

\* a read of t that starts after the five bytes were read returns 0
ThenEof(t, c) ==
    (/\ HelloWritten(t, c)
     /\ OnlyReader(t)
     /\ pipe.taken = 5
     /\ InUser(t)
     /\ ReadsPipe(t))
    => /\ ev'.ret = <<0>>
       /\ cpu' = "user"

\* C5, the statement as it is made, whoever else holds the write end
C5_PipeHello ==
    /\ [][\A t, c \in Procs : ReturnsHello(t, c) /\ ThenEof(t, c)]_vars
    /\ \A t, c \in Procs :
          HelloWaiting(t, c) ~> (HelloRead(t) \/ machine # "running")

\* C5 for a parent that has closed its own descriptor of the
\* write end, so that no strong reference to the write end remains; the
\* read then returns in its next pass
ReturnsAtOnce(t, c) ==
    (/\ HelloWritten(t, c)
     /\ OnlyReader(t)
     /\ write_end_strong_count(K) = 0
     /\ ReadsPipe(t)
     /\ ev'.arg.len = 16
     /\ ev'.arg.already = pipe.taken
     /\ pipe.taken < 5)
    => /\ ev'.ret = <<5>>
       /\ ev'.out = <<Hello>>

\* C5 with no strong reference to the write end left: the read returns 5
\* with the bytes in order, at once or when it runs again, and then 0
C5_PipeHelloClosed ==
    /\ [][\A t, c \in Procs :
            ReturnsHello(t, c) /\ ThenEof(t, c) /\ ReturnsAtOnce(t, c)]_vars
    /\ \A t, c \in Procs :
          (HelloWaiting(t, c) /\ write_end_strong_count(K) = 0)
              ~> (HelloRead(t) \/ machine # "running")

\* the parent, switched out in its read before the child wrote, has the
\* five bytes
C5_Witness ==
    \E t, c \in Procs :
        /\ HelloWritten(t, c)
        /\ HelloRead(t)
        /\ ev.arg.already = 0
        /\ tcb[t].task_cx = "read"
        /\ InUser(t)


(***************************************************************************)
(* execve (C11).                                                           *)
(***************************************************************************)
\* the machine word at va in the address space of p, <<>> when it is not
\* mapped or not a word the model reads back
LoadWord(p, va) ==
    LET b == [k \in 0..7 |-> LoadByte(uspace[p].ms.page_table, frames, va + k)] IN
    IF (\E k \in 0..7 : b[k] < 0) \/ ~WordReadable(b) THEN <<>> ELSE <<WordOf(b)>>

\* a NUL-terminated copy of the string s lies at va on the user stack of p
StringAt(p, va, s) ==
    /\ ULe(ustack_bottom_from_tid(0), va)
    /\ ULe(va + Len(s) + 1, ustack_top(0))
    /\ \A i \in 1..Len(s) : LoadByte(uspace[p].ms.page_table, frames, va + i - 1) = s[i]
    /\ LoadByte(uspace[p].ms.page_table, frames, va + Len(s)) = 0

\* argv_base points to the addresses of copies of args, then a null word
ArgvAt(p, argv_base, args) ==
    /\ \A i \in 0..(Len(args) - 1) :
          /\ LoadWord(p, argv_base + 8 * i) # <<>>
          /\ StringAt(p, LoadWord(p, argv_base + 8 * i)[1], args[i + 1])
    /\ LoadWord(p, argv_base + 8 * Len(args)) = <<0>>

ExecveDone(p) == mev.op = "execve" /\ mev.p = p /\ mev.ret = 0

\* what execve leaves apart from the first argument register
ExecveStack(p) ==
    /\ uspace[p].trap_cx.sepc = ElfFiles[mev.path].entry
    /\ ArgvAt(p, uspace[p].trap_cx.a1, mev.args)
    /\ uspace[p].trap_cx.sp % 8 = 0

\* C11: after a successful execve with argument vector args the thread
\* enters user mode at the entry point of the new ELF with a0 = len(args),
\* a1 = argv_base, the words at argv_base the addresses of NUL-terminated
\* copies of the arguments on the new user stack followed by a null word,
\* and the stack pointer aligned to the machine word.
C11_ExecArgs ==
    \A p \in MemProcs :
        ExecveDone(p) /\ machine = "running" =>
            /\ ExecveStack(p)
            /\ uspace[p].trap_cx.a0 = Len(mev.args)

\* what holds instead: the register holds the value sys_execve returned
C11_ExecArgsReturnZero ==
    \A p \in MemProcs :
        ExecveDone(p) /\ machine = "running" =>
            /\ ExecveStack(p)
            /\ uspace[p].trap_cx.a0 = 0

C11_Witness ==
    /\ machine = "running"
    /\ ExecveDone(INITPROC)
    /\ Len(mev.args) = 2
    /\ uspace[INITPROC].trap_cx.a0 = 0
    /\ ExecveStack(INITPROC)

(***************************************************************************)
(* Page table and areas (C12).                                             *)
(***************************************************************************)
\* the areas of ms whose range holds the page vpn
AreasCovering(ms, vpn) ==
    {i \in 1..Len(ms.areas) :
        ULe(ms.areas[i].start, vpn) /\ ULt(vpn, ms.areas[i].end)}

\* every valid leaf entry of the page table of p lies in exactly one area,
\* or is the trampoline page or a trap-context page
Covered(p) ==
    \A vpn \in DOMAIN uspace[p].ms.page_table :
        \/ Cardinality(AreasCovering(uspace[p].ms, vpn)) = 1
        \/ vpn = VirtAddr_floor(TRAMPOLINE)
        \/ vpn = VirtAddr_floor(trap_cx_bottom_from_tid(0))

\* C12: after every system call and every scheduling point, for every
\* process that still exists, zombies not yet reaped included, each page
\* with a valid leaf entry in its page table is covered by exactly one
\* MapArea of its memory set, or is the trampoline page or a trap-context
\* page.
C12_MappedCovered ==
    machine = "running" =>
        \A p \in MemProcs : uspace[p].state # "none" => Covered(p)

\* what holds instead: the processes that have not exited are covered
C12_LiveCovered ==
    machine = "running" =>
        \A p \in MemProcs : uspace[p].state = "live" => Covered(p)

\* a zombie whose page table still maps a page that no area covers
C12_Witness ==
    /\ machine = "running"
    /\ \E p \in MemProcs :
          /\ uspace[p].state = "zombie"
          /\ uspace[p].ms.areas = <<>>
          /\ \E vpn \in DOMAIN uspace[p].ms.page_table :
                /\ vpn # VirtAddr_floor(TRAMPOLINE)
                /\ vpn # VirtAddr_floor(trap_cx_bottom_from_tid(0))
                /\ uspace[p].ms.page_table[vpn].ppn \notin DOMAIN frames

(***************************************************************************)
(* Copy of an address space (C13).                                         *)
(***************************************************************************)
\* the content of page vpn in the address space ms
PageOf(ms, vpn) == frames[ms.page_table[vpn].ppn]

\* dst has the areas of src, each page of each area in a frame of its own
\* with the content of the page of src
SameAreas(src, dst) ==
    /\ Len(dst.areas) = Len(src.areas)
    /\ \A i \in 1..Len(src.areas) :
          /\ dst.areas[i].start = src.areas[i].start
          /\ dst.areas[i].end = src.areas[i].end
          /\ dst.areas[i].map_type = src.areas[i].map_type
          /\ dst.areas[i].map_perm = src.areas[i].map_perm
          /\ \A k \in 1..Len(VPNRange(src.areas[i].start, src.areas[i].end)) :
                LET vpn == VPNRange(src.areas[i].start, src.areas[i].end)[k] IN
                /\ vpn \in DOMAIN src.page_table
                /\ vpn \in DOMAIN dst.page_table
                /\ dst.page_table[vpn].ppn # src.page_table[vpn].ppn
                /\ dst.page_table[vpn].ppn \in DOMAIN frames
                /\ PageOf(dst, vpn) = PageOf(src, vpn)

\* C13: from_existed_user(src) yields an address space with MapAreas of
\* the same ranges, types and permissions as src, in which the content of
\* every page of every area equals the content of the page of src at the
\* time of the copy; the cloned process inherits the brk and heap_start of
\* src.
C13_CloneCopies ==
    (machine = "running" /\ mev.op = "clone") =>
        /\ SameAreas(uspace[mev.p].ms, uspace[mev.child].ms)
        /\ uspace[mev.child].ms.brk = uspace[mev.p].ms.brk
        /\ uspace[mev.child].ms.heap_start = uspace[mev.p].ms.heap_start

\* a clone of a parent that grew its heap and stored a byte in it
C13_Witness ==
    /\ machine = "running"
    /\ mev.op = "clone"
    /\ uspace[mev.child].state = "live"
    /\ uspace[mev.child].ms.brk = 2 * PAGE_SIZE + 2048
    /\ Len(uspace[mev.child].ms.areas) = 4
    /\ LoadByte(uspace[mev.p].ms.page_table, frames, 2 * PAGE_SIZE) = 7
    /\ LoadByte(uspace[mev.child].ms.page_table, frames, 2 * PAGE_SIZE) = 7
    /\ LoadByte(uspace[mev.child].ms.page_table, frames, PAGE_SIZE) = 19

(***************************************************************************)
(* mmap (C14, C15).                                                        *)
(***************************************************************************)
\* the n pages from vpn on share no page with an area of ms
FreeRun(ms, vpn, n) == \A k \in 0..(n - 1) : AreasCovering(ms, vpn + k) = {}

\* the lowest page at or above brk from which n pages are free
LowestFreeVpn(ms, n) ==
    LET free == {v \in VirtAddr_ceil(ms.brk)..(MaxVpn + MaxAreas + 4) : FreeRun(ms, v, n)}
    IN  CHOOSE v \in free : \A w \in free : v <= w

\* the page table new is old with exactly the n pages from vpn on added
MapsExactly(old, new, vpn, n) ==
    /\ DOMAIN new.page_table = DOMAIN old.page_table \cup {vpn + k : k \in 0..(n - 1)}
    /\ \A k \in 0..(n - 1) : vpn + k \notin DOMAIN old.page_table
    /\ \A v \in DOMAIN old.page_table : new.page_table[v] = old.page_table[v]

\* the step is a call mmap(0, len) with len > 0 by p that returned to user mode
MmapAnywhere(p) ==
    /\ mev'.op = "mmap" /\ mev'.p = p
    /\ mev'.start = 0 /\ mev'.len > 0
    /\ machine' = "running"

\* C14: for len > 0, mmap with start = 0 returns the lowest page-aligned
\* address a >= brk such that the ceil(len / PAGE_SIZE) pages from a on
\* share no page with an existing MapArea, maps exactly those pages, and
\* moves brk to the end of that region.
C14_MmapLowestFree ==
    [][\A p \in MemProcs :
          MmapAnywhere(p) =>
              LET n == VirtAddr_ceil(mev'.len)
                  vpn == LowestFreeVpn(uspace[p].ms, n)
              IN  /\ mev'.ret = VirtAddr_from_vpn(vpn)
                  /\ MapsExactly(uspace[p].ms, uspace'[p].ms, vpn, n)
                  /\ uspace'[p].ms.brk = VirtAddr_from_vpn(vpn + n)]_vars

\* mmap(0, PAGE_SIZE) with brk at the free page 2 returned page 3
C14_Witness ==
    /\ machine = "running"
    /\ mev.op = "mmap" /\ mev.start = 0 /\ mev.len = PAGE_SIZE
    /\ mev.brk0 = 2 * PAGE_SIZE
    /\ mev.ret = 3 * PAGE_SIZE
    /\ AreasCovering(uspace[mev.p].ms, 2) = {}
    /\ 2 \notin DOMAIN uspace[mev.p].ms.page_table
    /\ 3 \in DOMAIN uspace[mev.p].ms.page_table
    /\ uspace[mev.p].ms.brk = 4 * PAGE_SIZE

\* the pages of the range [start, start + len)
PagesOf(start, len) == VirtAddr_floor(start)..(VirtAddr_ceil(start + len) - 1)

\* the range [start, start + len) shares a page with an area of ms
SharesPage(ms, start, len) == \E v \in PagesOf(start, len) : AreasCovering(ms, v) # {}

\* the range [start, start + len) touches an area of ms without sharing a page
TouchesArea(ms, start, len) ==
    /\ ~SharesPage(ms, start, len)
    /\ \E i \in 1..Len(ms.areas) :
          \/ ms.areas[i].end = VirtAddr_floor(start)
          \/ ms.areas[i].start = VirtAddr_ceil(start + len)

\* the step is a call of mmap by p
MmapCall(p) == mev'.op = "mmap" /\ mev'.p = p

\* the call of the step must fail
MmapMustFail(p) ==
    \/ mev'.len = 0
    \/ mev'.start # 0 /\ ~aligned(mev'.start)
    \/ mev'.start # 0 /\ SharesPage(uspace[p].ms, mev'.start, mev'.len)

\* the call of the step failed and left the address space as it was
MmapFailed(p) ==
    /\ mev'.ret = 0 - 1
    /\ uspace'[p].ms = uspace[p].ms
    /\ frames' = frames

\* the call of the step names a free page-aligned range
MmapFixedFree(p) ==
    /\ mev'.len > 0
    /\ mev'.start # 0 /\ aligned(mev'.start)
    /\ ~SharesPage(uspace[p].ms, mev'.start, mev'.len)

\* C15: mmap returns an error and leaves areas, page table and brk
\* unchanged when len = 0, when a nonzero start is not page-aligned, or
\* when the page range of a nonzero start shares a page with an existing
\* MapArea; a nonzero page-aligned start whose page range shares no page
\* with an existing MapArea succeeds and returns exactly start.
C15_MmapFixed ==
    [][\A p \in MemProcs :
          MmapCall(p) =>
              /\ MmapMustFail(p) => MmapFailed(p)
              /\ MmapFixedFree(p) => mev'.ret = mev'.start]_vars

\* what holds instead: the error cases, and success for a free range that
\* touches no area
C15_MmapFixedApart ==
    [][\A p \in MemProcs :
          MmapCall(p) =>
              /\ MmapMustFail(p) => MmapFailed(p)
              /\ (MmapFixedFree(p) /\ ~TouchesArea(uspace[p].ms, mev'.start, mev'.len))
                     => mev'.ret = mev'.start]_vars

\* mmap(5 pages, one page) failed although page 5 is free, next to the
\* area mapped at page 4
C15_Witness ==
    /\ machine = "running"
    /\ mev.op = "mmap" /\ mev.start = 5 * PAGE_SIZE /\ mev.len = PAGE_SIZE
    /\ mev.ret = 0 - 1
    /\ ~SharesPage(uspace[mev.p].ms, 5 * PAGE_SIZE, PAGE_SIZE)
    /\ 5 \notin DOMAIN uspace[mev.p].ms.page_table
    /\ \E i \in 1..Len(uspace[mev.p].ms.areas) :
          uspace[mev.p].ms.areas[i].start = 4 /\ uspace[mev.p].ms.areas[i].end = 5

(***************************************************************************)
(* munmap (C16, C17).                                                      *)
(***************************************************************************)
\* the areas of ms whose range is exactly the page range of [start, start + len)
AreasExactly(ms, start, len) ==
    {i \in 1..Len(ms.areas) :
        /\ ms.areas[i].start = VirtAddr_floor(start)
        /\ ms.areas[i].end = VirtAddr_ceil(start + len)}

\* the step is a call of munmap by p
MunmapCall(p) == mev'.op = "munmap" /\ mev'.p = p

\* the range of the call is empty, misaligned or not that of one area of p
MunmapMismatch(p) ==
    \/ mev'.len = 0
    \/ ~aligned(mev'.start)
    \/ AreasExactly(uspace[p].ms, mev'.start, mev'.len) = {}

\* C16: munmap(start, len) whose page range is not exactly the range of
\* one existing MapArea (partial, overlapping, misaligned or empty range)
\* returns an error and changes no mapping: areas, page-table entries and
\* frames are as before the call.
C16_MunmapMismatch ==
    [][\A p \in MemProcs :
          (MunmapCall(p) /\ MunmapMismatch(p)) =>
              /\ mev'.ret = 0 - 1
              /\ machine' = machine
              /\ uspace'[p].ms = uspace[p].ms
              /\ frames' = frames]_vars

\* a munmap of the first page of a two-page area failed and left both pages
C16_Witness ==
    /\ machine = "running"
    /\ mev.op = "munmap" /\ mev.ret = 0 - 1
    /\ mev.start = 3 * PAGE_SIZE /\ mev.len = PAGE_SIZE
    /\ \E i \in 1..Len(uspace[mev.p].ms.areas) :
          uspace[mev.p].ms.areas[i].start = 3 /\ uspace[mev.p].ms.areas[i].end = 5
    /\ {3, 4} \subseteq DOMAIN uspace[mev.p].ms.page_table

\* the pages of the area that the successful call of the step removed
Unmapped(p) ==
    LET found == AreasExactly(uspace[p].ms, mev'.start, mev'.len)
        idx == CHOOSE i \in found : \A j \in found : i <= j
    IN  [idx |-> idx,
         vpns |-> {v \in DOMAIN uspace[p].ms.page_table :
                      /\ ULe(uspace[p].ms.areas[idx].start, v)
                      /\ ULt(v, uspace[p].ms.areas[idx].end)}]

\* C17: after a successful munmap of an area every page of that area has
\* an invalid page-table entry, its frame is released and the area is no
\* longer in areas, while the range, page-table entries, frames and page
\* contents of every other area are unchanged.
C17_MunmapArea ==
    [][\A p \in MemProcs :
          (MunmapCall(p) /\ mev'.ret = 0) =>
              LET old == uspace[p].ms
                  new == uspace'[p].ms
                  u == Unmapped(p)
              IN  /\ machine' = machine
                  /\ Cardinality(u.vpns) = old.areas[u.idx].end - old.areas[u.idx].start
                  /\ \A v \in u.vpns :
                        /\ v \notin DOMAIN new.page_table
                        /\ old.page_table[v].ppn \in DOMAIN frames
                        /\ old.page_table[v].ppn \notin DOMAIN frames'
                  /\ AreasExactly(new, mev'.start, mev'.len) = {}
                  /\ new.areas = RemoveAt(old.areas, u.idx)
                  /\ DOMAIN new.page_table = DOMAIN old.page_table \ u.vpns
                  /\ \A v \in DOMAIN new.page_table :
                        /\ new.page_table[v] = old.page_table[v]
                        /\ new.page_table[v].ppn \in DOMAIN frames =>
                              /\ new.page_table[v].ppn \in DOMAIN frames'
                              /\ frames'[new.page_table[v].ppn]
                                     = frames[new.page_table[v].ppn]]_vars

\* the mapping at page 3 was unmapped and the byte stored at the last byte
\* of the mapping at page 5 is still read back
C17_Witness ==
    /\ machine = "running"
    /\ mev.op = "munmap" /\ mev.ret = 0
    /\ mev.start = 3 * PAGE_SIZE /\ mev.len = PAGE_SIZE
    /\ 3 \notin DOMAIN uspace[mev.p].ms.page_table
    /\ AreasCovering(uspace[mev.p].ms, 3) = {}
    /\ AreasCovering(uspace[mev.p].ms, 5) # {}
    /\ LoadByte(uspace[mev.p].ms.page_table, frames, 5 * PAGE_SIZE + 4095) = 7

(***************************************************************************)
(* sys_brk (C18).                                                          *)
(***************************************************************************)
\* the step is a call of sys_brk by p
BrkCall(p) == mev'.op = "brk" /\ mev'.p = p

\* the mappings of old are in new and their frames hold what they held
MappingsKept(old, new) ==
    \A v \in DOMAIN old.page_table :
        /\ v \in DOMAIN new.page_table
        /\ new.page_table[v] = old.page_table[v]
        /\ old.page_table[v].ppn \in DOMAIN frames =>
              /\ old.page_table[v].ppn \in DOMAIN frames'
              /\ frames'[old.page_table[v].ppn] = frames[old.page_table[v].ppn]

\* new is old with one Framed R+W+U area over the pages [lo, hi), if any
HeapGrown(old, new, lo, hi) ==
    IF lo < hi
    THEN /\ Len(new.areas) = Len(old.areas) + 1
         /\ SubSeq(new.areas, 1, Len(old.areas)) = old.areas
         /\ new.areas[Len(new.areas)].start = lo
         /\ new.areas[Len(new.areas)].end = hi
         /\ new.areas[Len(new.areas)].map_type = "Framed"
         /\ new.areas[Len(new.areas)].map_perm = {"R", "W", "U"}
         /\ DOMAIN new.page_table = DOMAIN old.page_table \cup lo..(hi - 1)
         /\ \A v \in lo..(hi - 1) :
               /\ v \notin DOMAIN old.page_table
               /\ new.page_table[v].flags = {"R", "W", "U", "V"}
               /\ new.page_table[v].ppn \notin DOMAIN frames
               /\ new.page_table[v].ppn \in DOMAIN frames'
    ELSE /\ new.areas = old.areas
         /\ new.page_table = old.page_table

\* the call of the step returned brk and changed nothing
BrkUnchanged(p) ==
    /\ mev'.ret = uspace[p].ms.brk
    /\ machine' = machine
    /\ uspace'[p].ms = uspace[p].ms
    /\ frames' = frames

\* the call of the step grew the heap up to addr
BrkGrown(p) ==
    /\ mev'.ret = mev'.addr
    /\ machine' = machine
    /\ uspace'[p].ms.brk = mev'.addr
    /\ uspace'[p].ms.heap_start = uspace[p].ms.heap_start
    /\ HeapGrown(uspace[p].ms, uspace'[p].ms,
                 VirtAddr_ceil(uspace[p].ms.brk), VirtAddr_ceil(mev'.addr))
    /\ MappingsKept(uspace[p].ms, uspace'[p].ms)

\* C18: sys_brk(addr) with addr = 0 or addr < brk returns the current brk
\* and changes nothing; with addr >= brk it returns addr, sets brk = addr
\* and adds one Framed R+W+U area covering exactly the newly included
\* pages [align_up(old brk), align_up(addr)), while every mapping there
\* was before is unchanged.
C18_Brk ==
    [][\A p \in MemProcs :
          BrkCall(p) =>
              IF mev'.addr = 0 \/ ULt(mev'.addr, uspace[p].ms.brk)
              THEN BrkUnchanged(p)
              ELSE BrkGrown(p)]_vars

\* what holds instead: the same when none of the newly included pages is
\* mapped before the call
C18_BrkFreePages ==
    [][\A p \in MemProcs :
          BrkCall(p) =>
              IF mev'.addr = 0 \/ ULt(mev'.addr, uspace[p].ms.brk)
              THEN BrkUnchanged(p)
              ELSE (\A v \in VirtAddr_ceil(uspace[p].ms.brk)..(VirtAddr_ceil(mev'.addr) - 1) :
                        v \notin DOMAIN uspace[p].ms.page_table)
                       => BrkGrown(p)]_vars

\* sys_brk grew the heap into the page mapped by mmap at page 4 and the
\* kernel stopped in the assertion of PageTable::map
C18_Witness ==
    /\ machine = "panic"
    /\ mev.op = "brk" /\ mev.addr = 4 * PAGE_SIZE + 1
    /\ \E i \in 1..Len(uspace[mev.p].ms.areas) :
          uspace[mev.p].ms.areas[i].start = 4 /\ uspace[mev.p].ms.areas[i].end = 5
    /\ uspace[mev.p].ms.brk < 4 * PAGE_SIZE

(***************************************************************************)
(* sys_nanosleep (C19).                                                    *)
(***************************************************************************)
\* the step resumes the sleeper, which has no pending signal
SleepResumes == sleeper.st = "ready" /\ sleeper'.st # "ready" /\ sleeper.signals = {}

\* the clock value time lies at or after the call plus the interval asked for
ReachedEnd(time) ==
    (time - sleeper.called) * (NSEC_PER_SEC \div CLOCK_FREQ) >= sleeper.req

\* C19: sys_nanosleep(req, rem) returns 0 only after the monotonic clock
\* has reached end = (time of call) + req, and then rem holds zeros;
\* whenever the sleeper resumes with no pending signal the clock has
\* reached end (the check end <= now in the kernel holds on every such
\* resume).
C19_Nanosleep ==
    [][SleepResumes =>
          /\ ReachedEnd(clock)
          /\ TimeSpec_le(sleeper.end, TimeSpec_now(clock))
          /\ machine' = "running"
          /\ sleeper'.ret = 0
          /\ sleeper'.rem = TimeSpec_new]_vars

\* what holds instead: a call that returned 0 returned after end, with
\* zeros in rem
C19_ReturnsAfterEnd ==
    [][(SleepResumes /\ machine' = "running") =>
          /\ ReachedEnd(clock)
          /\ sleeper'.ret = 0
          /\ sleeper'.rem = TimeSpec_new]_vars

\* the sleeper was woken in the millisecond of end and resumed before end
C19_Witness ==
    /\ machine = "panic"
    /\ sleeper.st = "user"
    /\ sleeper.req = NSEC_PER_MSEC
    /\ get_time_ms(sleeper.resumed) >= TimeSpec_to_ms(sleeper.end)
    /\ ~TimeSpec_le(sleeper.end, TimeSpec_now(sleeper.resumed))
    /\ sleeper.rem = RemBefore

(***************************************************************************)
(* Faults in user mode (C20).                                              *)
(***************************************************************************)
\* the step is the trap-handler pass for a fault of thread t in user mode
FaultStep(t) == ev'.op = "fault" /\ ev'.t = t

\* the pass posted the signal of the exception and the thread left through
\* exit_current_and_run_next: it is not current, not queued, holds no user
\* resources and no timer, so it is never dispatched to user mode again
FaultExits(t) ==
    /\ (IF ev'.arg = "IllegalInstruction" THEN "SIGILL" ELSE "SIGSEGV") \in pcb'[t].signals
    /\ current' # <<t>>
    /\ machine' = "running" => cpu' # "user"
    /\ t \notin Range(ready_queue')
    /\ \A i \in 1..Len(TIMERS') : TIMERS'[i].task # t
    /\ tcb'[t].res = <<>>
    /\ tcb'[t].exit_code # <<>>

\* C20 as stated: when a user thread takes a load, store or fetch fault or
\* page fault (an illegal instruction), SIGSEGV (SIGILL) is posted to its
\* process and in the same trap-handler pass the thread exits through
\* exit_current_and_run_next instead of returning to user mode: the
\* faulting instruction is never resumed and the process becomes a zombie.
C20_FaultZombie ==
    [][\A t \in Procs :
          FaultStep(t) => FaultExits(t) /\ pcb'[t].is_zombie]_vars

\* C20 amended: the same, where the process becomes a zombie unless it is
\* the process with pid IDLE_PID, whose exit shuts the machine down.
C20_FaultExit ==
    [][\A t \in Procs :
          FaultStep(t) =>
              /\ FaultExits(t)
              /\ IF pcb[t].pid = IDLE_PID
                 THEN machine' = "shutdown" /\ ~pcb'[t].is_zombie
                 ELSE machine' = "running" /\ pcb'[t].is_zombie]_vars

\* a child process took an illegal instruction and is a zombie with SIGILL
C20_Witness ==
    /\ machine = "running"
    /\ ev.op = "fault" /\ ev.arg = "IllegalInstruction"
    /\ ev.t # INITPROC
    /\ pcb[ev.t].is_zombie
    /\ pcb[ev.t].signals = {"SIGILL"}
    /\ pcb[ev.t].exit_code = 0 - 4
    /\ current = <<>>
\* the page numbers a call on a user buffer went through that had no valid
\* entry in the page table of its process when the call was made
UnmappedTouched(e, pt) == {e.v[i].vpn : i \in 1..Len(e.v)} \ DOMAIN pt

BufferCall(e) == e.op \in {"write", "read"}

\* the pages of the buffer buf..buf+len-1
BufferPages(e) == {VirtAddr_floor(e.buf + i) : i \in 0..(e.len - 1)}

\* the buffer of the call lies on a page with no valid entry
BufferUnmapped(e, pt) == ~(BufferPages(e) \subseteq DOMAIN pt)

\* the call went as far as its buffer: its descriptor was accepted
BufferUsed(e, fd_table) ==
    /\ e.fd < Len(fd_table)
    /\ fd_table[e.fd + 1] # <<>>
    /\ IF e.op = "write" THEN fd_table[e.fd + 1][1].writable
                         ELSE fd_table[e.fd + 1][1].readable

\* C21: a syscall that takes a user buffer translates each address through
\* the page table of the calling process, and never reads or writes through an
\* address whose page has no valid mapping there: such a call fails (it
\* returns a negative value and the kernel keeps running) and touches nothing.
C21_UserPointer ==
    [][(BufferCall(mev') /\ MemRunning(INITPROC))
       => /\ UnmappedTouched(mev', uspace[INITPROC].ms.page_table) = {}
          /\ (BufferUsed(mev', uspace[INITPROC].fd_table)
              /\ BufferUnmapped(mev', uspace[INITPROC].ms.page_table))
                => (mev'.outcome = "return" /\ mev'.ret < 0 /\ mev'.v = <<>>)]_vars

\* a buffer whose pages all have valid entries is reached through these
\* entries: each slice is the frame its page is mapped to
C21_MappedBuffer ==
    [][(BufferCall(mev') /\ MemRunning(INITPROC)
        /\ BufferUsed(mev', uspace[INITPROC].fd_table)
        /\ ~BufferUnmapped(mev', uspace[INITPROC].ms.page_table))
       => /\ {mev'.v[i].vpn : i \in 1..Len(mev'.v)} \subseteq BufferPages(mev')
          /\ \A i \in 1..Len(mev'.v) :
                mev'.v[i].ppn = uspace[INITPROC].ms.page_table[mev'.v[i].vpn].ppn
          /\ mev'.op = "write" => (mev'.outcome = "return" /\ mev'.ret = mev'.len)]_vars

\* a write of two bytes that start on the last byte of a mapped page and end
\* on the page after it, which is not mapped, was carried out through
\* physical page 0
C21_Witness ==
    /\ mev.op = "write" /\ mev.buf = 3 * PAGE_SIZE + 4095 /\ mev.len = 2
    /\ Len(mev.v) = 2
    /\ mev.v[1].vpn \in DOMAIN uspace[INITPROC].ms.page_table
    /\ mev.v[2].vpn \notin DOMAIN uspace[INITPROC].ms.page_table
    /\ mev.v[2].ppn = PhysPageZero
\* a timer interrupt taken in user mode by the running thread
TimerSwitch == machine = "running" /\ cpu = "user" /\ cpu' = "idle"

\* C22: with two always-runnable user threads that make no syscalls, every
\* user-mode timer interrupt moves the running thread to the back of the run
\* queue and the next dispatch takes the front of the queue, so that at every
\* moment the numbers of time slices the threads have received differ by at
\* most one.
C22_EqualSlices ==
    /\ [](\A a \in DOMAIN slices, b \in DOMAIN slices : slices[a] - slices[b] <= 1)
    /\ [][/\ (TimerSwitch /\ DOMAIN slices # {})
                => /\ current # <<>> /\ current' = <<>>
                   /\ ready_queue' = Append(ready_queue, current[1])
                   /\ tcb'[current[1]].task_status = "Ready"
          /\ (machine = "running" /\ cpu = "idle" /\ current' # <<>>)
                => /\ current' = <<Head(ready_queue)>>
                   /\ ready_queue' = Tail(ready_queue)]_vars

\* both threads have had three time slices and one is in its fourth
C22_Witness ==
    /\ DOMAIN slices = {0, 1}
    /\ slices[0] = 3 /\ slices[1] = 4
    /\ cpu = "user" /\ current = <<1>>
    /\ ready_queue = <<0>>
\* the main thread of the process in slot s: the TCB at index 0 of its tasks
MainThread(s) ==
    /\ Len(pcb[s].tasks) >= 1
    /\ pcb[s].tasks[1] # <<>>
    /\ tcb[pcb[s].tasks[1][1]].live
    /\ machine = "running" => tcb[pcb[s].tasks[1][1]].res = <<0>>

\* C23: after every syscall and every scheduling point, every PCB with
\* is_zombie = false has a TCB at TID 0 in its tasks list.
C23_MainThread ==
    \A s \in Procs : (pcb[s].live /\ ~pcb[s].is_zombie) => MainThread(s)

\* a child has just exited and is a zombie, while the init process and
\* another child, which waits in the run queue, are not
C23_Witness ==
    /\ machine = "running"
    /\ ev.op = "exit"
    /\ \E z \in Procs : pcb[z].live /\ pcb[z].is_zombie
    /\ \E s \in Procs \ {INITPROC} :
        /\ pcb[s].live /\ ~pcb[s].is_zombie /\ MainThread(s)
        /\ s \in Range(ready_queue)
    /\ pcb[INITPROC].live /\ ~pcb[INITPROC].is_zombie
FdCalls == {"read", "write", "close", "dup", "dup3", "getdents64", "fstat"}

\* fd is out of range of the table, its slot is empty, or, for read and
\* write, its file lacks the direction
BadDescriptor(op, fd, fd_table) ==
    \/ fd >= Len(fd_table)
    \/ fd_table[fd + 1] = <<>>
    \/ op = "read" /\ ~fd_table[fd + 1][1].readable
    \/ op = "write" /\ ~fd_table[fd + 1][1].writable

\* the call of the step returned a negative value, left the descriptor
\* table as it was, and the kernel runs on
FdRefused ==
    /\ mev'.outcome = "return" /\ mev'.ret < 0
    /\ uspace'[INITPROC].fd_table = uspace[INITPROC].fd_table
    /\ machine' = "running"

\* C24: read, write, close, dup, dup3, getdents64 and fstat, called with a
\* descriptor that is out of range of the fd table or whose slot is empty (or,
\* for read and write, whose file lacks the direction), return a negative
\* value and leave the fd table unchanged; none of them stops the kernel.
C24_BadDescriptor ==
    [][(mev'.op \in FdCalls /\ MemRunning(INITPROC)
        /\ BadDescriptor(mev'.op, mev'.fd, uspace[INITPROC].fd_table))
       => FdRefused]_vars

\* the same for every call but fstat with a descriptor out of range
C24_BadDescriptorChecked ==
    [][(mev'.op \in FdCalls /\ MemRunning(INITPROC)
        /\ BadDescriptor(mev'.op, mev'.fd, uspace[INITPROC].fd_table)
        /\ ~(mev'.op = "fstat" /\ mev'.fd >= Len(uspace[INITPROC].fd_table)))
       => FdRefused]_vars

\* fstat(7) on the table of three descriptors stopped the kernel
C24_Witness ==
    /\ mev.op = "fstat" /\ mev.fd = 7
    /\ Len(uspace[INITPROC].fd_table) = 3
    /\ mev.outcome = "panic" /\ machine = "panic"
\* the number of times t occurs in the run queue
Occurrences(q, t) == Cardinality({i \in 1..Len(q) : q[i] = t})

\* C25: in every reachable state, after any interleaving of yield, sleep,
\* timer expiry, kill and exit, each TCB occurs at most once in the run queue,
\* every TCB in the run queue has status Ready, and the current TCB of the
\* processor is not in the run queue.
C25_RunQueue ==
    machine = "running" =>
        /\ \A t \in Procs : Occurrences(ready_queue, t) <= 1
        /\ \A i \in 1..Len(ready_queue) : tcb[ready_queue[i]].task_status = "Ready"
        /\ current # <<>> => current[1] \notin Range(ready_queue)

\* a thread is in the run queue twice
C25_Witness ==
    /\ machine = "running"
    /\ \E t \in Procs : Occurrences(ready_queue, t) = 2
\* threads that have executed exit_current_and_run_next
Exited(t) == tcb[t].exit_code # <<>>

\* run_tasks hands the processor to t in this step
Dispatched(t) == current # <<t>> /\ current' = <<t>>

\* C26: once a thread has executed exit_current_and_run_next it is never
\* dispatched again by run_tasks, whatever timer-heap entries or wake-ups
\* were outstanding for it.
C26_NoDispatchAfterExit ==
    [][\A t \in Procs : Exited(t) => ~Dispatched(t)]_vars

\* an exited thread is the current one
C26_Witness ==
    /\ machine = "running"
    /\ \E t \in Procs : Exited(t) /\ current = <<t>>

\* as long as no signal is sent to a sleeper, an exited thread is not in the
\* run queue and not dispatched
C26_NoKill ==
    (\A t \in Procs : Exited(t) => t \notin Range(ready_queue) /\ current # <<t>>)
\* the id is handed out by the allocator and not returned
Held(a, id) == id < a.current /\ id \notin Range(a.recycled)

\* slot s is in the children list of some process
IsChild(cs, s) == \E q \in Procs : cs[q].live /\ s \in Range(cs[q].children)

\* wait4 removes the zombie in slot s from its parent's children list
Wait4Removes(s) ==
    /\ machine = "running"
    /\ ev'.op = "wait4"
    /\ pcb[s].live /\ pcb[s].is_zombie
    /\ IsChild(pcb, s)
    /\ ~IsChild(pcb', s)

\* the PCB, the pid and the kernel stack of the main thread are gone
Released(s) ==
    /\ ~pcb'[s].live
    /\ ~Held(PID_ALLOCATOR', pcb[s].pid)
    /\ ~tcb'[s].live
    /\ ~Held(KSTACK_ALLOCATOR', tcb[s].kstack)

\* a zombie holds its PCB, its pid and the kernel stack of its main thread
ZombieKept(s) ==
    (pcb[s].live /\ pcb[s].is_zombie) =>
        /\ Held(PID_ALLOCATOR, pcb[s].pid)
        /\ tcb[s].live
        /\ Held(KSTACK_ALLOCATOR, tcb[s].kstack)

\* C27: whenever wait4 removes a zombie child from the children list of its
\* parent, that entry is the only strong reference to the child's PCB (the
\* assertion on the strong count holds), and the child's PCB, pid and
\* main-thread kernel stack are released in that step and not before it.
C27_ReapReleases ==
    /\ [](machine = "running" => \A s \in Procs : ZombieKept(s))
    /\ [][\A s \in Procs : Wait4Removes(s) => machine' = "running" /\ Released(s)]_vars

\* wait4 has returned the pid of a zombie child whose PCB is gone, and the
\* kernel stack of the child's main thread is still held
C27_Witness ==
    /\ machine = "running"
    /\ ev.op = "wait4"
    /\ ev.ret # <<>> /\ ev.ret[1] > 0
    /\ \E s \in Procs \ {INITPROC} :
          ~pcb[s].live /\ tcb[s].live /\ Held(KSTACK_ALLOCATOR, tcb[s].kstack)

\* the assertion on the strong count holds at every removal, and the PCB
\* and the pid are released by it
C27_StrongCount ==
    [][\A s \in Procs : Wait4Removes(s) => machine' = "running" /\ ~pcb'[s].live
                                           /\ ~Held(PID_ALLOCATOR', pcb[s].pid)]_vars
\* the VPN ranges of the areas of ms are pairwise disjoint
AreasDisjoint(ms) ==
    \A i, j \in 1..Len(ms.areas) :
        i < j => \/ ms.areas[i].end <= ms.areas[j].start
                 \/ ms.areas[j].end <= ms.areas[i].start

\* the step is a call of sys_brk, sys_mmap or sys_munmap
AreaCall == mev'.op \in {"brk", "mmap", "munmap"}

\* sys_brk by p asks PageTable::map for a page that is mapped
BrkMapsMapped(p) ==
    /\ BrkCall(p)
    /\ mev'.addr # 0 /\ ~ULt(mev'.addr, uspace[p].ms.brk)
    /\ \E v \in VirtAddr_ceil(uspace[p].ms.brk)..(VirtAddr_ceil(mev'.addr) - 1) :
          v \in DOMAIN uspace[p].ms.page_table

\* C28: after any sequence of from_elf, allocation of the user resources,
\* sys_brk, sys_mmap and sys_munmap, the VPN ranges of the MapAreas of a
\* MemorySet are pairwise disjoint, and no call asks the page table to map a
\* VPN whose entry is valid or to unmap a VPN whose entry is invalid: the
\* assertions of map and unmap never stop the kernel.
C28_AreasDisjoint ==
    /\ [](\A p \in MemProcs : uspace[p].state = "live" => AreasDisjoint(uspace[p].ms))
    /\ [][AreaCall => machine' # "panic" /\ \A p \in MemProcs : ~BrkMapsMapped(p)]_vars

\* sys_brk asked for a page of the area that mmap made at page 4, and the
\* kernel stopped
C28_Witness ==
    /\ machine = "panic"
    /\ mev.op = "brk"
    /\ \E i \in 1..Len(uspace[mev.p].ms.areas) :
          /\ uspace[mev.p].ms.areas[i].start = 4
          /\ VirtAddr_ceil(uspace[mev.p].ms.brk) <= 4
          /\ VirtAddr_ceil(mev.addr) > 4

\* the areas are pairwise disjoint whenever the kernel runs
C28_Disjoint ==
    \A p \in MemProcs :
        (machine = "running" /\ uspace[p].state = "live") => AreasDisjoint(uspace[p].ms)

\* sys_mmap and sys_munmap never stop the kernel
C28_MmapMunmap ==
    [][mev'.op \in {"mmap", "munmap"} => machine' # "panic"]_vars
\* C29: at every call of schedule or __switch (from suspend, block, exit,
\* pipe read and write, wait4, nanosleep and run_tasks) the caller holds no
\* handle of an interrupt-free cell and the nesting level of the interrupt
\* mask is 0, and no thread ever asks for a cell whose handle is held by a
\* thread that is switched out.
C29_NoHandleAtSwitch ==
    /\ cell_ev.op \in {"switch", "switch_to"} =>
          cell_ev.level = 0 /\ cell_ev.held = {}
    /\ cell_ev.op # "conflict"
    /\ \A h \in cells.borrowed : h.by = Cur

\* a thread that waited on the pipe has switched to the idle control flow
\* with the interrupt mask left
C29_Witness ==
    /\ cell_ev.op = "switch"
    /\ cell_ev.level = 0
    /\ cells.sie
    /\ \E t \in CellThreads :
          /\ cell_ev.by = t
          /\ steps[t] # <<>>
          /\ Head(steps[t]) = access(PipeCell)[1]
\* the bytes waiting in the ring, oldest first
RingContent(r) ==
    [i \in 1..available_read(r) |-> r.arr[(r.head + i - 1) % RING_BUFFER_SIZE]]

\* a is the beginning of b
IsPrefix(a, b) == Len(a) <= Len(b) /\ a = SubSeq(b, 1, Len(a))

\* the step is a pass of Pipe::write made by t: the start of a call of
\* sys_write on the write end, or the retry after a yield
WritesPipe(t) ==
    /\ ev'.op = "write"
    /\ ev'.t = t
    /\ \/ ResumesAt(t, "write")
       \/ /\ InUser(t)
          /\ ev'.arg.fd < Len(pcb[t].fd_table)
          /\ pcb[t].fd_table[ev'.arg.fd + 1] = "pipe_w"

\* the buffer of the call and the bytes of it taken before this pass
WriteData(t) ==
    IF ResumesAt(t, "write") THEN tcb[t].frame.data ELSE StreamFrom(wstamp, ev'.arg.len)

WriteAlready(t) == IF ResumesAt(t, "write") THEN tcb[t].frame.already ELSE 0

\* a pass takes the next bytes of the buffer in order; the call returns the
\* length of the buffer, and only when the whole buffer is taken; else the
\* ring is full and the call goes on later where it stopped
WritePass(t) ==
    WritesPipe(t) =>
        IF ev'.ret # <<>>
        THEN /\ ev'.ret = <<Len(WriteData(t))>>
             /\ pipe'.accepted =
                  pipe.accepted \o SubSeq(WriteData(t), WriteAlready(t) + 1,
                                          Len(WriteData(t)))
        ELSE /\ tcb'[t].frame.call = "write"
             /\ tcb'[t].frame.data = WriteData(t)
             /\ tcb'[t].frame.already < Len(WriteData(t))
             /\ pipe'.accepted =
                  pipe.accepted \o SubSeq(WriteData(t), WriteAlready(t) + 1,
                                          tcb'[t].frame.already)
             /\ available_write(ring') = 0

\* C30: for any interleaving of blocking writers and blocking readers of the
\* pipe, the bytes delivered to the readers are a prefix of the bytes
\* accepted from the writers, none lost, doubled or out of order (what is
\* accepted and not delivered waits in the ring, in order), and a blocking
\* write of n bytes returns n only after all n bytes were put in the ring.
C30_PipeStream ==
    /\ [](/\ IsPrefix(pipe.delivered, pipe.accepted)
          /\ pipe.accepted = pipe.delivered \o RingContent(ring))
    /\ [][\A t \in Procs : WritePass(t)]_vars

\* a write of one byte more than the ring holds has returned after it was
\* switched out, and bytes of it were read
C30_Witness ==
    /\ ev.op = "write"
    /\ ev.ret = <<RING_BUFFER_SIZE + 1>>
    /\ Len(pipe.delivered) > 0
    /\ Len(pipe.accepted) > RING_BUFFER_SIZE

\* thread t is inside sys_nanosleep
Napping(t) == tcb[t].live /\ tcb[t].frame.call = "nanosleep"

\* thread t has an entry in the sleep heap
InTimers(t) == \E i \in 1..Len(TIMERS) : TIMERS[i].task = t

\* thread t is Blocked with neither a timer nor a run-queue entry
Stranded(t) ==
    /\ tcb[t].live
    /\ tcb[t].task_status = "Blocked"
    /\ ~InTimers(t)
    /\ t \notin Range(ready_queue)

\* C31: a thread that calls sys_nanosleep is resumed once the clock has
\* reached its expire_ms, wherever the timer interrupt of kernel mode falls
\* between add_timer and block_current_and_run_next, and no thread is left
\* Blocked with neither a sleep-heap entry nor a run-queue entry.
C31_SleeperResumed ==
    /\ [](machine = "running" => \A t \in Procs : ~Stranded(t))
    /\ \A t \in Procs :
          (Napping(t) /\ tcb[t].frame.end = 0) ~> (~Napping(t) \/ machine # "running")

\* the idle loop runs with interrupts masked and an empty run queue while a
\* sleeper whose time has come waits in the sleep heap
C31_Witness ==
    /\ machine = "running"
    /\ cpu = "idle"
    /\ ready_queue = <<>>
    /\ ~cells.sie
    /\ \E t \in Procs :
          /\ Napping(t)
          /\ tcb[t].task_status = "Blocked"
          /\ InTimers(t)
          /\ tcb[t].frame.end = 0

\* no thread is stranded, whatever the kernel-mode timer interrupt does
C31_NeverStranded == machine = "running" => \A t \in Procs : ~Stranded(t)

\* the timer interrupt of kernel mode fell between add_timer and
\* block_current_and_run_next: the sleeper blocks while it is queued
C31_InWindow ==
    /\ machine = "running"
    /\ ev.op = "nanosleep_block"
    /\ tcb[ev.t].task_status = "Blocked"
    /\ ~InTimers(ev.t)
    /\ ev.t \in Range(ready_queue)

\* the pages of a process that no call of the process may touch: the
\* trampoline and the trap context of its thread 0
GuardPages == {VirtAddr_floor(TRAMPOLINE), VirtAddr_floor(trap_cx_bottom_from_tid(0))}

\* page vpn of process p is mapped as before the step, and its frame holds
\* what it held
PageKept(p, vpn) ==
    /\ vpn \in DOMAIN uspace[p].ms.page_table
    /\ vpn \in DOMAIN uspace'[p].ms.page_table
    /\ uspace'[p].ms.page_table[vpn] = uspace[p].ms.page_table[vpn]
    /\ uspace[p].ms.page_table[vpn].ppn \in DOMAIN frames =>
          /\ uspace[p].ms.page_table[vpn].ppn \in DOMAIN frames'
          /\ frames'[uspace[p].ms.page_table[vpn].ppn] =
                 frames[uspace[p].ms.page_table[vpn].ppn]

\* C32: no system call of a process (munmap, mmap, brk, read or write with
\* any pointer and length) unmaps, remaps or overwrites the trap-context
\* page of one of its threads or the trampoline page.
C32_PagesKept ==
    [][\A p \in MemProcs :
          (uspace[p].state = "live" /\ mev'.op \in {"munmap", "mmap", "brk", "read", "write"})
              => \A vpn \in GuardPages : PageKept(p, vpn)]_vars

\* munmap of the trap-context page has returned 0 and the page is gone
C32_Witness ==
    /\ mev.op = "munmap"
    /\ mev.ret = 0
    /\ mev.start = trap_cx_bottom_from_tid(0)
    /\ VirtAddr_floor(trap_cx_bottom_from_tid(0)) \notin DOMAIN uspace[INITPROC].ms.page_table

\* read has stored the character of the console in the trap-context page
C32_ReadOverwrites ==
    /\ mev.op = "read"
    /\ mev.outcome = "return"
    /\ mev.ret = 1
    /\ mev.buf = trap_cx_bottom_from_tid(0) + 16

\* the trampoline page stays mapped as it was
C32_TrampolineKept ==
    [][\A p \in MemProcs :
          uspace[p].state = "live" => PageKept(p, VirtAddr_floor(TRAMPOLINE))]_vars

\* the frames the page table of process p maps by a valid entry, the
\* trampoline frame left out
UserFrames(p) ==
    {uspace[p].ms.page_table[v].ppn : v \in DOMAIN uspace[p].ms.page_table} \ {strampoline}

\* processes that exist: running ones and zombies
Existing == {p \in MemProcs : uspace[p].state # "none"}

\* the addresses of the pages process q maps
MappedAddrs(q) == {VirtAddr_from_vpn(v) : v \in DOMAIN uspace[q].ms.page_table}

\* a store of process p leaves what every other running process reads
StoreIsolated(p) ==
    \A q \in MemProcs \ {p} :
        (uspace[q].state = "live" /\ uspace'[q].state = "live") =>
            \A va \in MappedAddrs(q) :
                uspace[q].ms.page_table[VirtAddr_floor(va)].ppn # strampoline =>
                    LoadByte(uspace'[q].ms.page_table, frames', va) =
                        LoadByte(uspace[q].ms.page_table, frames, va)

\* C33: at all times a frame that backs a Framed user page is mapped by a
\* valid entry in the page table of at most one process (the trampoline
\* frame alone is shared), so that after clone a store of the child changes
\* nothing the parent reads, and the other way round.
C33_FramesPrivate ==
    /\ [](machine = "running" =>
            \A p, q \in Existing : p # q => UserFrames(p) \cap UserFrames(q) = {})
    /\ [][(machine = "running" /\ mev'.op = "store" /\ ~mev'.fault)
              => StoreIsolated(mev'.p)]_vars

\* a frame is mapped by the page table of a zombie and by the page table
\* of a running process
C33_Witness ==
    /\ machine = "running"
    /\ \E p, q \in MemProcs :
          /\ uspace[p].state = "zombie"
          /\ uspace[q].state = "live"
          /\ UserFrames(p) \cap UserFrames(q) # {}

\* among running processes no frame is shared and no store is seen
C33_LiveIsolated ==
    /\ [](machine = "running" =>
            \A p, q \in MemProcs :
                (p # q /\ uspace[p].state = "live" /\ uspace[q].state = "live")
                    => UserFrames(p) \cap UserFrames(q) = {})
    /\ [][(machine = "running" /\ mev'.op = "store" /\ ~mev'.fault)
              => StoreIsolated(mev'.p)]_vars

\* the child has stored a byte in a page its parent maps too
C33_ChildStored ==
    /\ machine = "running"
    /\ mev.op = "store" /\ ~mev.fault
    /\ uspace[mev.p].parent # <<>>
    /\ uspace[uspace[mev.p].parent[1]].state = "live"
    /\ VirtAddr_floor(mev.va) \in DOMAIN uspace[uspace[mev.p].parent[1]].ms.page_table

\* the places where slot s is held as a child: process and index
Holders(cs, s) ==
    {<<q, i>> \in Procs \X (1..(2 * MaxProcs)) :
        cs[q].live /\ i <= Len(cs[q].children) /\ cs[q].children[i] = s}

\* the main thread of process t, not the init process, exits in this step
MainExits(t) ==
    /\ machine = "running" /\ machine' = "running"
    /\ t # INITPROC
    /\ pcb[t].live /\ ~pcb[t].is_zombie
    /\ pcb'[t].live /\ pcb'[t].is_zombie

\* C34: when the main thread of a process P other than init exits, every
\* process of P.children is once in the children list of init with its
\* parent resolving to init, and P.children is empty; so every existing
\* process other than init is held in the children list of exactly one
\* existing process.
C34_Reparented ==
    /\ [](machine = "running" =>
            \A s \in Procs \ {INITPROC} :
                pcb[s].live => Cardinality(Holders(pcb, s)) = 1)
    /\ [][\A t \in Procs :
            MainExits(t) =>
                /\ pcb'[t].children = <<>>
                /\ \A c \in Range(pcb[t].children) :
                      /\ Holders(pcb', c) \subseteq {INITPROC} \X (1..(2 * MaxProcs))
                      /\ Cardinality(Holders(pcb', c)) = 1
                      /\ pcb'[c].parent = <<INITPROC>>]_vars

\* a process with a child has exited and the child is now a child of init:
\* the child has not run yet and was queued while init waited in the run
\* queue, so it was not init that made it
C34_Witness ==
    /\ machine = "running"
    /\ ev.op \in {"exit", "fault"}
    /\ ev.t # INITPROC
    /\ pcb[ev.t].live /\ pcb[ev.t].is_zombie /\ pcb[ev.t].children = <<>>
    /\ \E c \in Procs \ {INITPROC, ev.t} :
          /\ pcb[c].live
          /\ pcb[c].parent = <<INITPROC>>
          /\ c \in Range(pcb[INITPROC].children)
          /\ ev.t \in Range(pcb[INITPROC].children)
          /\ tcb[c].born # <<>>
          /\ ready_queue = <<INITPROC, c>>

\* an area of the address space ms covers page vpn
CoveredByArea(ms, vpn) ==
    \E i \in 1..Len(ms.areas) :
        ULe(ms.areas[i].start, vpn) /\ ULt(vpn, ms.areas[i].end)

TrampolinePage == VirtAddr_floor(TRAMPOLINE)

TrapCxPage(tid) == VirtAddr_floor(trap_cx_bottom_from_tid(tid))

\* C35: in every user MemorySet no MapArea of areas covers the trampoline
\* page or the trap-context page of a thread; both are entries of the page
\* table only, and they stay mapped after recycle_data_pages.
C35_NotInAreas ==
    machine = "running" =>
        \A p \in MemProcs :
            /\ uspace[p].state # "none" =>
                  /\ ~CoveredByArea(uspace[p].ms, TrampolinePage)
                  /\ ~CoveredByArea(uspace[p].ms, TrapCxPage(0))
                  /\ TrampolinePage \in DOMAIN uspace[p].ms.page_table
            /\ uspace[p].state = "zombie" =>
                  TrapCxPage(0) \in DOMAIN uspace[p].ms.page_table

\* a process made by clone holds the trap-context page of its main thread
\* as an area
C35_Witness ==
    /\ machine = "running"
    /\ mev.op = "clone"
    /\ uspace[mev.child].state = "live"
    /\ \E i \in 1..Len(uspace[mev.child].ms.areas) :
          /\ uspace[mev.child].ms.areas[i].start = TrapCxPage(0)
          /\ uspace[mev.child].ms.areas[i].end = TrapCxPage(0) + 1
          /\ uspace[mev.child].ms.areas[i].map_perm = {"R", "W"}

\* the main thread has exited: the areas are gone, the trap-context page is
\* unmapped and the trampoline is mapped
C35_AfterRecycle ==
    /\ machine = "running"
    /\ \E p \in MemProcs :
          /\ uspace[p].state = "zombie"
          /\ uspace[p].ms.areas = <<>>
          /\ TrapCxPage(0) \notin DOMAIN uspace[p].ms.page_table
          /\ TrampolinePage \in DOMAIN uspace[p].ms.page_table

\* no area covers the trampoline page, which stays mapped while the
\* process exists
C35_Trampoline ==
    machine = "running" =>
        \A p \in MemProcs :
            uspace[p].state # "none" =>
                /\ ~CoveredByArea(uspace[p].ms, TrampolinePage)
                /\ TrampolinePage \in DOMAIN uspace[p].ms.page_table
                /\ uspace[p].ms.page_table[TrampolinePage].ppn = strampoline

\* the timers of the heap h that have expired at current_ms, and the others
Expired(h, current_ms) == SelectSeq(h, LAMBDA tm : tm.expire_ms <= current_ms)

Pending(h, current_ms) == SelectSeq(h, LAMBDA tm : tm.expire_ms > current_ms)

\* how often the timer tm occurs in the sequence s
TimerCount(s, tm) == Cardinality({i \in 1..Len(s) : s[i] = tm})

\* C36: after check_timer has run at time now the heap holds exactly the
\* timers it held before with expire_ms > now; the thread of each timer
\* removed was handed to wakeup_task once, in non-decreasing order of
\* expire_ms, and no timer that has not expired was woken.
C36_CheckTimer ==
    heap_ev.op = "check_timer" =>
        /\ timer_heap = Pending(heap_ev.before, heap_now)
        /\ \A i \in 1..Len(heap_ev.before) :
              TimerCount(heap_ev.woken, heap_ev.before[i]) =
                  TimerCount(Expired(heap_ev.before, heap_now), heap_ev.before[i])
        /\ Len(heap_ev.woken) = Len(Expired(heap_ev.before, heap_now))
        /\ \A i, j \in 1..Len(heap_ev.woken) :
              i < j => heap_ev.woken[i].expire_ms <= heap_ev.woken[j].expire_ms
        /\ \A i \in 1..Len(heap_ev.woken) : heap_ev.woken[i].expire_ms <= heap_now

\* check_timer has left an expired timer in the heap, behind a timer with
\* the top bit of expire_ms set
C36_Witness ==
    /\ heap_ev.op = "check_timer"
    /\ heap_ev.woken = <<>>
    /\ \E i, j \in 1..Len(timer_heap) :
          /\ timer_heap[i].expire_ms <= heap_now
          /\ timer_heap[j].expire_ms >= WordCount \div 2

\* the same for heaps whose timers all have the top bit of expire_ms clear
C36_SmallExpiries ==
    (/\ heap_ev.op = "check_timer"
     /\ \A i \in 1..Len(heap_ev.before) : heap_ev.before[i].expire_ms < WordCount \div 2) =>
        /\ timer_heap = Pending(heap_ev.before, heap_now)
        /\ \A i \in 1..Len(heap_ev.before) :
              TimerCount(heap_ev.woken, heap_ev.before[i]) =
                  TimerCount(Expired(heap_ev.before, heap_now), heap_ev.before[i])
        /\ Len(heap_ev.woken) = Len(Expired(heap_ev.before, heap_now))
        /\ \A i, j \in 1..Len(heap_ev.woken) :
              i < j => heap_ev.woken[i].expire_ms <= heap_ev.woken[j].expire_ms
        /\ \A i \in 1..Len(heap_ev.woken) : heap_ev.woken[i].expire_ms <= heap_now

\* check_timer has woken two timers with different expire_ms and kept one
C36_WokenInOrder ==
    /\ heap_ev.op = "check_timer"
    /\ Len(heap_ev.woken) = 2
    /\ heap_ev.woken[1].expire_ms < heap_ev.woken[2].expire_ms
    /\ Len(timer_heap) = 1
    /\ timer_heap[1].expire_ms < WordCount \div 2

\* C37: over every sequence of enter and exit calls in which each exit ends
\* a handle that is open, starting with no handle open: the nesting level
\* is the number of open handles and so never goes below 0, interrupts are
\* disabled while the level is above 0, and when the level is 0 again the
\* interrupt-enable bit is what it was just before the outermost enter.
C37_MaskNesting ==
    /\ cells.nested_level = MaskOpen
    /\ cells.nested_level >= 0
    /\ cells.nested_level > 0 => ~cells.sie
    /\ (cell_ev.op = "exit" /\ cells.nested_level = 0) => cells.sie = cell_ev.outer

\* the last of three handles entered with interrupts enabled has ended and
\* interrupts are enabled again
C37_Witness ==
    /\ cell_ev.op = "exit"
    /\ cell_ev.open = 0
    /\ cell_ev.deep = 3
    /\ cell_ev.outer
    /\ cells.nested_level = 0
    /\ cells.sie

\* three handles entered with interrupts disabled have ended and interrupts
\* are still disabled
C37_DisabledKept ==
    /\ cell_ev.op = "exit"
    /\ cell_ev.open = 0
    /\ cell_ev.deep = 3
    /\ ~cell_ev.outer
    /\ ~cells.sie

\* the pages of the bytes ptr .. ptr + len - 1 are mapped in pt
BufMapped(pt, ptr, len) ==
    \A vpn \in VirtAddr_floor(ptr)..VirtAddr_floor(ptr + len - 1) : vpn \in DOMAIN pt

\* the byte of the frames that backs the address va
Backing(pt, va) == [ppn |-> pt[VirtAddr_floor(va)].ppn, off |-> page_offset(va)]

\* byte k, from 0, of the slices v taken one after the other
RECURSIVE ByteAt(_, _)
ByteAt(v, k) ==
    IF k < Head(v).to - Head(v).from THEN [ppn |-> Head(v).ppn, off |-> Head(v).from + k]
    ELSE ByteAt(Tail(v), k - (Head(v).to - Head(v).from))

RECURSIVE SumLens(_)
SumLens(v) == IF v = <<>> THEN 0 ELSE SumLens(Tail(v)) + Head(v).to - Head(v).from

\* what C38 says of a call and of the walk that follows it
BufRight ==
    /\ mev.outcome = "return"
    /\ SumLens(mev.v) = mev.len
    /\ \A i \in 1..Len(mev.v) : 0 <= mev.v[i].from /\ mev.v[i].from < mev.v[i].to
                                /\ mev.v[i].to <= PAGE_SIZE
    /\ mev.op = "translated_byte_buffer" =>
          \A k \in 0..(mev.len - 1) :
              ByteAt(mev.v, k) = Backing(uspace[mev.p].ms.page_table, mev.ptr + k)
    /\ mev.ulen = mev.len
    /\ mev.op = "next" =>
          /\ mev.k <= mev.len + 1
          /\ mev.item = IF mev.k <= mev.len
                        THEN <<Backing(uspace[mev.p].ms.page_table, mev.ptr + mev.k - 1)>>
                        ELSE <<>>

\* C38: for every ptr and len whose pages are all mapped, the slices of
\* translated_byte_buffer have lengths that sum to len, each lies within one
\* page, byte k of them is the byte of the frames that backs ptr + k,
\* UserBuffer::len is len, and the iterator yields these len bytes in the
\* order of the addresses and then None.
C38_BufferCovers ==
    (/\ mev.op \in {"translated_byte_buffer", "next"}
     /\ BufMapped(uspace[mev.p].ms.page_table, mev.ptr, mev.len)) => BufRight

\* the call on the last two bytes of the trampoline page has returned no
\* slice
C38_Witness ==
    /\ mev.op = "translated_byte_buffer"
    /\ mev.ptr = TRAMPOLINE + PAGE_SIZE - 2
    /\ mev.len = 2
    /\ BufMapped(uspace[mev.p].ms.page_table, mev.ptr, mev.len)
    /\ mev.outcome = "return"
    /\ mev.v = <<>>
    /\ mev.ulen = 0

\* the same for the calls whose bytes end below the top of the address space
C38_BelowTop ==
    (/\ mev.op \in {"translated_byte_buffer", "next"}
     /\ ~buffer_end_overflows(mev.ptr, mev.len)
     /\ BufMapped(uspace[mev.p].ms.page_table, mev.ptr, mev.len)) => BufRight

\* the walk of a buffer of two slices, the second a whole page, has ended
C38_WalkEnded ==
    /\ mev.op = "next"
    /\ mev.len = PAGE_SIZE + 1
    /\ Len(mev.v) = 2
    /\ mev.v[2].to - mev.v[2].from = PAGE_SIZE
    /\ mev.v[1].ppn + 1 # mev.v[2].ppn
    /\ mev.k = mev.len + 1
    /\ mev.item = <<>>

\* the call on four bytes of the trap-context page and the trampoline page
\* has returned two slices
C38_AcrossTop ==
    /\ mev.op = "translated_byte_buffer"
    /\ mev.ptr = TRAP_CONTEXT_BASE + PAGE_SIZE - 2
    /\ mev.outcome = "return"
    /\ Len(mev.v) = 2
    /\ mev.v[2].vpn = VirtAddr_floor(TRAMPOLINE)
    /\ mev.v[2].to = 2

\* the first word of the range a call asked for: start, or the address mmap
\* chose for start = 0
RangeBase ==
    usize_of(IF mev.op = "mmap" /\ mev.start = 0 THEN mev.ret ELSE mev.start)

\* the pages of the range the call went on with lie in the range asked for
RangeInside ==
    \A n \in mev.range.start_vpn..(mev.range.end_vpn - 1) :
        /\ RangeBase <= usize_from_VirtAddr(n * PAGE_SIZE)
        /\ usize_from_VirtAddr(n * PAGE_SIZE) < RangeBase + usize_of(mev.len)

\* what C39 says of a call
RangeSound ==
    /\ mev.range.kind # "panic"
    /\ mev.range.kind = "err" => mev.ret = 0 - 1
    /\ mev.range.kind = "range" =>
          /\ mev.range.start_vpn < mev.range.end_vpn
          /\ RangeInside

\* C39: for every start and len, also where start + len reaches or crosses
\* the top of the address space, sys_mmap and sys_munmap return an error or
\* work on a range of page numbers with start below end that lies in the
\* range asked for; no range with its end below its start is constructed.
C39_RangeSound == mev.op \in {"mmap", "munmap"} => RangeSound

\* mmap came to VPNRange::new with the end below the start, and the kernel
\* has stopped
C39_Witness ==
    /\ mev.op = "mmap"
    /\ mev.start = 3 * PAGE_SIZE
    /\ mev.range.kind = "panic"
    /\ mev.range.end_vpn < mev.range.start_vpn
    /\ machine = "panic"

\* munmap returns an error or works on a range with start below end
C39_MunmapOrdered ==
    mev.op = "munmap" =>
        /\ mev.range.kind # "panic"
        /\ mev.range.kind = "err" => mev.ret = 0 - 1
        /\ mev.range.kind = "range" => mev.range.start_vpn < mev.range.end_vpn

\* the start is an address of the address space and len is less than the
\* size of the address space
RangePlain ==
    /\ usize_from_VirtAddr(VirtAddr_from(mev.start)) = usize_of(mev.start)
    /\ usize_of(mev.len) < VaSize \div 2

\* the same for the calls with such a start and len
C39_PlainSound == (mev.op \in {"mmap", "munmap"} /\ RangePlain) => RangeSound

\* mmap returned its start for a range of no page
C39_EmptyMapped ==
    /\ mev.op = "mmap"
    /\ mev.range.kind = "range"
    /\ mev.range.start_vpn = mev.range.end_vpn
    /\ mev.ret = mev.start
    /\ machine = "running"

\* munmap of a start above the address space has removed the area of the
\* page of the same low bits
C39_AliasUnmapped ==
    /\ mev.op = "munmap"
    /\ mev.start = VaSize + 3 * PAGE_SIZE
    /\ mev.ret = 0
    /\ mev.range.start_vpn = 3

\* [a1, e1) and [a2, e2) have a byte in common
RangesOverlap(a1, e1, a2, e2) == a1 < e2 /\ a2 < e1

\* the thread ids of the live threads of the process
LiveTids == Range(handles.tid)

\* the user stack of t1 and the trap-context page of t2 are disjoint
StackClearOfTrapCx(t1, t2) ==
    ~RangesOverlap(UserResRanges(t1).ustack_bottom, UserResRanges(t1).ustack_top,
                   UserResRanges(t2).trap_cx_bottom, UserResRanges(t2).trap_cx_top)

\* at least one page lies between the user stacks of t1 and t2
StacksGuarded(t1, t2) ==
    ~RangesOverlap(UserResRanges(t1).ustack_bottom,
                   UserResRanges(t1).ustack_top + PAGE_SIZE,
                   UserResRanges(t2).ustack_bottom,
                   UserResRanges(t2).ustack_top + PAGE_SIZE)

\* neither range of t reaches into the trampoline page
ClearOfTrampoline(t) ==
    /\ ~RangesOverlap(UserResRanges(t).ustack_bottom, UserResRanges(t).ustack_top,
                      TRAMPOLINE, TRAMPOLINE + PAGE_SIZE)
    /\ ~RangesOverlap(UserResRanges(t).trap_cx_bottom, UserResRanges(t).trap_cx_top,
                      TRAMPOLINE, TRAMPOLINE + PAGE_SIZE)

\* what C40 says of the thread ids of a set
LayoutDisjoint(tids) ==
    \A t1 \in tids, t2 \in tids :
        /\ StackClearOfTrapCx(t1, t2)
        /\ t1 # t2 => StacksGuarded(t1, t2)
        /\ ClearOfTrampoline(t1)

C40_SixThreads == allocators.tid.current <= 6 => LayoutDisjoint(LiveTids)

\* the user stacks alone: always a page apart, whatever the ids
C40_StacksApart ==
    \A t1 \in LiveTids, t2 \in LiveTids : t1 # t2 => StacksGuarded(t1, t2)

\* the trap-context pages never reach the trampoline page
C40_TrapCxBelowTrampoline ==
    \A t \in LiveTids :
        ~RangesOverlap(UserResRanges(t).trap_cx_bottom, UserResRanges(t).trap_cx_top,
                       TRAMPOLINE, TRAMPOLINE + PAGE_SIZE)

\* the main thread alone, the only thread sys_clone and the loader make
C40_MainThread == LiveTids \subseteq {0} => LayoutDisjoint(LiveTids)

\* the ninth user stack of the layout would lie on the trap-context page of
\* thread 0 and on the trampoline page
C40_NinthStack ==
    /\ ~StackClearOfTrapCx(8, 0)
    /\ ~ClearOfTrampoline(8)
    /\ mev.op = "alloc_user_res"

====
